---- MODULE Spec2Model ----
(***************************************************************************)
(* Task orchestration of kearry/manus: the execute / cancel / close API    *)
(* routes, ExecutorAgent.executeTask, the Planner's response parser, and   *)
(* the five step handlers (selection, decomposer, dependency resolver and  *)
(* the action loop of executeStep).                                        *)
(*                                                                         *)
(* Every `await` of the TypeScript code is one atomic action: the store    *)
(* (Prisma) is assumed to perform each single call atomically, and the     *)
(* Node.js event loop may run any other request's continuation between two *)
(* awaits of one request.  Audit-log writes (createAgentLog,               *)
(* prisma.agentLog.create) are folded into the store call next to them:    *)
(* nothing in the orchestration reads the log back.  The one log row kept  *)
(* is the execute route's 'Task execution started'.                        *)
(*                                                                         *)
(* Texts (descriptions, responses, parameters) are sequences of            *)
(* one-character strings.  The store is reliable: a call fails only for a  *)
(* reason visible in its arguments.  What a tool operation or the          *)
(* text-generation collaborator returns is an input of the environment.    *)
(***************************************************************************)
EXTENDS Integers, Sequences, FiniteSets, TLC

\* Largest number of lines in a text-generation response, hence the largest plan.
MaxPlan == 3

Tasks == {"t1", "t2"}

\* Execute requests, each starting at most one ExecutorAgent run: e1 and e3 are
\* for task t1, e2 is for task t2, e4 names a task that does not exist, e5 is
\* a request for task t1 made by a user who does not own it.
Execs == {"e1", "e2", "e3", "e4", "e5"}

TaskOf(e) == IF e = "e2" THEN "t2" ELSE IF e = "e4" THEN "t0" ELSE "t1"

\* getCurrentUserId() of the request
UserOf(e) == IF e = "e5" THEN "u2" ELSE "u1"

\* Task.userId
TaskUser(t) == "u1"

TaskStatuses == {"PENDING", "PLANNING", "IN_PROGRESS", "RESOLVED", "CLOSED", "FAILED"}

StepStatuses == {"PENDING", "IN_PROGRESS", "COMPLETED", "FAILED"}

(***************************************************************************)
(* Planner.parsePlanFromLLMResponse.  Text is a sequence of one-character  *)
(* strings.                                                                *)
(***************************************************************************)
Whitespace == {" ", "\t"}

Digits == {"0", "1", "2", "3", "4", "5", "6", "7", "8", "9"}

StepPunct == {".", ")", "]"}

\* Length of the longest prefix of s, read from position from, whose characters are in set.
RECURSIVE RunLen(_, _, _)
RunLen(s, from, set) ==
    IF from > Len(s) \/ s[from] \notin set THEN 0
    ELSE 1 + RunLen(s, from + 1, set)

\* String.prototype.trim
RECURSIVE Trim(_)
Trim(s) ==
    IF s = << >> THEN s
    ELSE IF Head(s) \in Whitespace THEN Trim(Tail(s))
    ELSE IF s[Len(s)] \in Whitespace THEN Trim(SubSeq(s, 1, Len(s) - 1))
    ELSE s

\* Position of the first "\n" of text at or after from, Len(text) + 1 when there is none.
RECURSIVE LineEnd(_, _)
LineEnd(text, from) ==
    IF from > Len(text) \/ text[from] = "\n" THEN from
    ELSE LineEnd(text, from + 1)

\* String.prototype.split('\n'): always at least one (possibly empty) line.
RECURSIVE SplitLines(_)
SplitLines(text) ==
    LET n == LineEnd(text, 1)
    IN  IF n > Len(text) THEN << text >>
        ELSE << SubSeq(text, 1, n - 1) >> \o SplitLines(SubSeq(text, n + 1, Len(text)))

\* stepRegex = /^\s*(\d+)[.)\]]\s+(.+)$/ : the position of the punctuation
\* character when the line matches, 0 when it does not.
StepRegexMatch(line) ==
    LET ws == RunLen(line, 1, Whitespace)
        ds == RunLen(line, ws + 1, Digits)
        p  == ws + ds + 1
    IN  IF /\ ds >= 1
           /\ p <= Len(line)
           /\ line[p] \in StepPunct
           /\ p + 2 <= Len(line)
           /\ line[p + 1] \in Whitespace
        THEN p
        ELSE 0

\* match[2].trim(): whatever \s+ and (.+) share out, trimming leaves the same text.
StepDescription(line) == Trim(SubSeq(line, StepRegexMatch(line) + 1, Len(line)))

\* Faulty variant of ParseLine: a line that does not match starts a step of its own
ParseLine_EveryLine(st, line) ==
    IF StepRegexMatch(line) > 0
    THEN [steps |-> st.steps \o st.cur, cur |-> << StepDescription(line) >>]
    ELSE IF Trim(line) # << >>
    THEN [steps |-> st.steps \o st.cur, cur |-> << Trim(line) >>]
    ELSE st

\* The loop body of parsePlanFromLLMResponse for one line; st = [steps, cur],
\* cur = << >> for currentStep === null, else << description >>.
ParseLine(st, line) ==
    IF StepRegexMatch(line) > 0
    THEN [steps |-> st.steps \o st.cur, cur |-> << StepDescription(line) >>]
    ELSE IF st.cur # << >> /\ Trim(line) # << >>
    THEN [steps |-> st.steps, cur |-> << st.cur[1] \o << " " >> \o Trim(line) >>]
    ELSE st

RECURSIVE ParseLines(_, _)
ParseLines(st, lines) ==
    IF lines = << >> THEN st.steps \o st.cur
    ELSE ParseLines(ParseLine(st, Head(lines)), Tail(lines))

\* The descriptions of the plan steps parsed from a response.
parsePlanFromLLMResponse(response) ==
    ParseLines([steps |-> << >>, cur |-> << >>], SplitLines(response))

(***************************************************************************)
(* Responses of the text-generation collaborator: up to MaxPlan lines,     *)
(* each one of the sample lines, joined by "\n".                           *)
(***************************************************************************)
SampleLines ==
    { << >>,                                   \* ""
      << " " >>,                               \* " "
      << "a" >>,                               \* "a"      prose
      << "-", " ", "a" >>,                     \* "- a"    bullet
      << "1", ".", " ", "a" >>,                \* "1. a"
      << " ", "2", ")", " ", "b" >>,           \* " 2) b"
      << "1", "0", "]", "\t", "a", " " >>,     \* "10]\ta "
      << "1", ".", "a" >>,                     \* "1.a"    no blank after the punctuation
      << "1", ":", " ", "a" >>,                \* "1: a"   other punctuation
      << "1", ".", " " >>,                     \* "1. "    nothing left for (.+)
      << "1", ".", " ", " " >> }               \* "1.  "   (.+) takes the last blank

RECURSIVE JoinLines(_)
JoinLines(lines) ==
    IF Len(lines) = 1 THEN lines[1]
    ELSE lines[1] \o << "\n" >> \o JoinLines(Tail(lines))

LLMResponses ==
    { JoinLines(ls) : ls \in UNION { [1..n -> SampleLines] : n \in 1..MaxPlan } }

\* Planner.createPlan on a collaborator response (the prompt is not modelled).
createPlan(response) == parsePlanFromLLMResponse(response)

\* The length of every plan createPlan can return for the responses above.
PlanLengths == { Len(createPlan(r)) : r \in LLMResponses }

(***************************************************************************)
(* State.                                                                  *)
(***************************************************************************)
VARIABLES
    taskStatus,       \* Task.status of every task row
    taskCompletedAt,  \* Task.completedAt is set
    taskSteps,        \* the TaskStep table: a set of rows
    execPc,           \* execute route (POST /execute), per request slot: the await it
                      \* is at, or the status of its error response
    apiLog,           \* the requests whose 'Task execution started' AgentLog row exists
    errorLog,         \* the AgentLog rows of level ERROR the executor has written
    auditUp,          \* agentLog.create succeeds (TRUE) or rejects (FALSE) in this run
    pc,               \* ExecutorAgent.executeTask: the await it is at
    planLen,          \* plan.length of the plan createPlan returned
    idx,              \* loop index of storePlanSteps / position in executeTaskSteps
    snap,             \* `steps` of executeTaskSteps: ids in ascending stepNumber
    err,              \* the exception in flight or caught, "none" when there is none
    cancelPc,         \* cancel route (POST /cancel), per task
    closePc,          \* close route (POST /close), per task
    everFailed,       \* history: ids of the step rows that have been FAILED
    cancelPos,        \* history: <<pc, idx>> of each executor of the task when the
                      \* latest accepted cancel set the task FAILED
    deletePc,         \* DELETE route, per task
    deleted           \* the tasks whose row has been deleted

\* One run of a handler's executeStep on one step (the call at executeTaskStep).
VARIABLES
    description,      \* step.description, a sequence of one-character strings
    agentType,        \* the handler executeTaskStep selected, "none" before the selection
    apc,              \* executeStep: the await it is at
    toolIdx,          \* position in the handler's tool list while initializing / cleaning up
    actions,          \* the action list the decomposer returned
    ai,               \* position of the action loop in `actions`
    results,          \* `results`: the outputs pushed by successful actions
    toolUsage,        \* the ToolUsage rows this run created
    toolLive,         \* the tools that are initialized and not yet cleaned up
    invoked,          \* history: every invocation of an action's operation, with its arguments
    stepError,        \* the step-level exception the outer catch received, "none" when none
    stepResult,       \* AgentExecutionResult.success once executeStep has returned
    output,           \* AgentExecutionResult.output once executeStep has returned
    unresolved        \* history: the list the decomposer built, before its dependencies were resolved

\* One call of Planner.parsePlanFromLLMResponse.
VARIABLES
    llmResponse,      \* `response`, a sequence of one-character strings
    lineIdx,          \* the line the loop is at: 0 before the call, 1 + the number of
                      \* lines once the loop has ended, 2 + that number after the return
    planSteps,        \* `planSteps`: the descriptions of the steps pushed so far
    currentStep,      \* `currentStep`: << >> for null, else << its description >>
    completedStepIndices,  \* updatePlan: the 0-based indices of the completed steps
    updatePrompt      \* updatePlan: << >> before the prompt is built, else << what it asks for >>

\* One FileSystemTool.
VARIABLES
    virtualFileSystem,  \* `virtualFileSystem`: the entries of the Map in insertion order
    fsCall              \* history: the latest call of an operation and how it ended

taskVars == << taskStatus, taskCompletedAt, taskSteps, execPc, apiLog, errorLog, auditUp, pc,
               planLen, idx,
               snap, err, cancelPc, closePc, everFailed, cancelPos, deletePc, deleted >>

agentVars == << description, agentType, apc, toolIdx, actions, ai, results, toolUsage,
                toolLive, invoked, stepError, stepResult, output,
                unresolved >>

planVars == << llmResponse, lineIdx, planSteps, currentStep, completedStepIndices,
              updatePrompt >>

fsVars == << virtualFileSystem, fsCall >>

vars == << taskVars, agentVars, planVars, fsVars >>

StepsOf(t) == { s \in taskSteps : s.taskId = t }

\* prisma.taskStep.findMany({ where: { taskId }, orderBy: { stepNumber: 'asc' } }), as ids
RECURSIVE SortedIds(_)
SortedIds(rows) ==
    IF rows = {} THEN << >>
    ELSE LET first == CHOOSE s \in rows : \A o \in rows : s.stepNumber <= o.stepNumber
         IN  << first.id >> \o SortedIds(rows \ {first})

HasStep(id) == \E s \in taskSteps : s.id = id

\* prisma.taskStep.update({ where: { id }, data: { status, ... } })
UpdateStep(id, status, started, completed) ==
    { IF s.id = id
      THEN [s EXCEPT !.status = status,
                     !.startedAt = s.startedAt \/ started,
                     !.completedAt = s.completedAt \/ completed]
      ELSE s : s \in taskSteps }

\* Faulty variant of deleteMany: the filter on taskId is missing
deleteMany_NoFilter(rows, t) == {}

\* taskStep.deleteMany({ where: { taskId } }): the rows that are left
deleteMany(rows, t) == { s \in rows : s.taskId # t }

\* The task row exists: findUnique returns it, update and delete find it
HasTask(t) == t \in Tasks \ deleted

FailedIds(rows) == { s.id : s \in { r \in rows : r.status = "FAILED" } }

\* Every task is PENDING with no steps; no request and no executor is running.
InitTasks ==
    /\ taskStatus = [t \in Tasks |-> "PENDING"]
    /\ taskCompletedAt = [t \in Tasks |-> FALSE]
    /\ taskSteps = {}
    /\ execPc = [e \in Execs |-> "idle"]
    /\ apiLog = {}
    /\ errorLog = {}
    /\ pc = [e \in Execs |-> "idle"]
    /\ planLen = [e \in Execs |-> 0]
    /\ idx = [e \in Execs |-> 0]
    /\ snap = [e \in Execs |-> << >>]
    /\ err = [e \in Execs |-> "none"]
    /\ cancelPc = [t \in Tasks |-> "idle"]
    /\ closePc = [t \in Tasks |-> "idle"]
    /\ everFailed = {}
    /\ cancelPos = [e \in Execs |-> << "none", 0 >>]
    /\ deletePc = [t \in Tasks |-> "idle"]
    /\ deleted = {}

\* No handler is running.
InitNoStep ==
    /\ description = << >>
    /\ agentType = "none"
    /\ apc = "idle"
    /\ toolIdx = 0
    /\ actions = << >>
    /\ ai = 0
    /\ results = << >>
    /\ toolUsage = << >>
    /\ toolLive = {}
    /\ invoked = << >>
    /\ stepError = "none"
    /\ stepResult = "none"
    /\ output = [kind |-> "none"]
    /\ unresolved = << >>

\* The parser has not been called.
InitNoPlan ==
    /\ llmResponse = << >>
    /\ lineIdx = 0
    /\ planSteps = << >>
    /\ currentStep = << >>
    /\ completedStepIndices = {}
    /\ updatePrompt = << >>

\* The FileSystemTool as constructed: an empty map, no call yet.
InitNoFile ==
    /\ virtualFileSystem = << >>
    /\ fsCall = [raised |-> FALSE, contained |-> TRUE, outside |-> "no"]

\* The audit store accepts every write.
Init == InitTasks /\ InitNoStep /\ InitNoPlan /\ InitNoFile /\ auditUp = TRUE

\* The audit store accepts every write of the run, or rejects every one.
InitAudit == InitTasks /\ InitNoStep /\ InitNoPlan /\ InitNoFile /\ auditUp \in BOOLEAN

\* The statuses of the error responses of the execute route
ErrorResponses == {"400", "403", "404"}

PcValues ==
    { "idle", "findTask", "setPlanning", "createPlan", "deleteSteps", "createStep",
      "setInProgress", "findSteps", "stepStart", "executeStep", "stepComplete",
      "stepError", "checkStatus", "setResolved", "handleError", "done" }

TypeOK ==
    /\ taskStatus \in [Tasks -> TaskStatuses]
    /\ taskCompletedAt \in [Tasks -> BOOLEAN]
    /\ \A s \in taskSteps :
          /\ s.id \in Execs \X (0..MaxPlan)
          /\ s.taskId = TaskOf(s.id[1])
          /\ s.stepNumber \in 1..MaxPlan
          /\ s.status \in StepStatuses
          /\ s.startedAt \in BOOLEAN /\ s.completedAt \in BOOLEAN
    /\ \A s \in taskSteps : \A n \in taskSteps : s.id = n.id => s = n
    /\ execPc \in [Execs -> {"idle", "update", "200", "500"} \cup ErrorResponses]
    /\ apiLog \subseteq Execs
    /\ \A l \in errorLog :
          /\ l.taskId \in Tasks
          /\ l.stepId \in {<< >>} \cup (Execs \X (0..MaxPlan))
          /\ l.error \in {"planner", "agent", "store"}
    /\ auditUp \in BOOLEAN
    /\ lineIdx \in 0..(MaxPlan + 2)
    /\ Len(planSteps) <= MaxPlan /\ Len(currentStep) <= 1
    /\ pc \in [Execs -> PcValues]
    /\ planLen \in [Execs -> 0..MaxPlan]
    /\ idx \in [Execs -> 0..MaxPlan]
    /\ \A e \in Execs : snap[e] \in Seq(Execs \X (0..MaxPlan)) /\ Len(snap[e]) <= MaxPlan
    /\ err \in [Execs -> {"none", "planner", "agent", "store"}]
    /\ cancelPc \in [Tasks -> {"idle", "updateTask", "updateSteps"}]
    /\ closePc \in [Tasks -> {"idle", "update"}]
    /\ everFailed \subseteq Execs \X (0..MaxPlan)
    /\ cancelPos \in [Execs -> (PcValues \cup {"none"}) \X (0..MaxPlan)]
    /\ deletePc \in [Tasks -> {"idle", "delete"}]
    /\ deleted \subseteq Tasks
    /\ agentType \in {"none", "WebBrowsingAgent", "DataAnalysisAgent",
                       "DocumentProcessingAgent", "CodeExecutionAgent", "GeneralPurposeAgent"}
    /\ apc \in {"idle", "select", "initialize", "decompose", "start", "invoke",
                 "recordSuccess", "recordFailure", "catch", "returned"}
    /\ toolIdx \in 0..4
    /\ ai \in 0..Len(actions)
    /\ Len(results) <= Len(toolUsage) /\ Len(toolUsage) <= Len(actions)
    /\ \A k \in 1..Len(toolUsage) :
          toolUsage[k].action \in 0..(Len(actions) - 1) /\ toolUsage[k].ended \in 0..1
    /\ toolLive \subseteq {"browser", "code", "filesystem", "shell"}
    /\ Len(invoked) <= Len(toolUsage)
    /\ stepError \in {"none", "initialize", "recordToolUsageStart"}
    /\ stepResult \in {"none", "success", "failure"}
    /\ output.kind \in {"none", "null", "array", "promise"}

(***************************************************************************)
(* POST /api/tasks/[id]/execute                                            *)
(***************************************************************************)
\* Faulty variant of ExecFind: the check of the task's state is missing
ExecFind_AnyState(e) ==
    LET t == TaskOf(e) IN
    /\ execPc[e] = "idle"
    /\ execPc' = [execPc EXCEPT ![e] =
                     IF ~HasTask(t) THEN "404"
                     ELSE IF TaskUser(t) # UserOf(e) THEN "403"
                     ELSE "update"]
    /\ UNCHANGED << agentVars, planVars, fsVars >>
    /\ UNCHANGED << apiLog, errorLog, auditUp, deletePc, deleted >>
    /\ UNCHANGED << taskStatus, taskCompletedAt, taskSteps, pc, planLen, idx, snap, err,
                    cancelPc, closePc, everFailed, cancelPos >>

\* findUnique and the checks on the row it read: no row is a 404, another user's
\* row a 403, a row that is not PENDING a 400.  A response ends the request: a
\* slot stands for one request.
ExecFind(e) ==
    LET t == TaskOf(e) IN
    /\ execPc[e] = "idle"
    /\ execPc' = [execPc EXCEPT ![e] =
                     IF ~HasTask(t) THEN "404"
                     ELSE IF TaskUser(t) # UserOf(e) THEN "403"
                     ELSE IF taskStatus[t] # "PENDING" THEN "400"
                     ELSE "update"]
    /\ UNCHANGED << agentVars, planVars, fsVars >>
    /\ UNCHANGED << apiLog, errorLog, auditUp, deletePc, deleted >>
    /\ UNCHANGED << taskStatus, taskCompletedAt, taskSteps, pc, planLen, idx, snap, err,
                    cancelPc, closePc, everFailed, cancelPos >>

\* The route after task.update to PLANNING: prisma.agentLog.create is awaited with
\* no handler of its own, so its rejection reaches the route's catch, which answers
\* 500 before the executor is started; otherwise the executor is started by
\* Promise.resolve().then(...) and the response is 200.
RouteStart(e, up) ==
    [log      |-> IF up THEN apiLog \cup {e} ELSE apiLog,
     response |-> IF up THEN "200" ELSE "500",
     executor |-> IF up THEN "findTask" ELSE pc[e]]

\* task.update to PLANNING, the log entry, and the start of the executor.
ExecUpdate(e) ==
    LET t == TaskOf(e)
        r == RouteStart(e, auditUp) IN
    /\ execPc[e] = "update"
    /\ IF HasTask(t)
       THEN /\ taskStatus' = [taskStatus EXCEPT ![t] = "PLANNING"]
            /\ apiLog' = r.log
            /\ execPc' = [execPc EXCEPT ![e] = r.response]
            /\ pc' = [pc EXCEPT ![e] = r.executor]
       ELSE /\ execPc' = [execPc EXCEPT ![e] = "500"]   \* task.update rejects
            /\ UNCHANGED << taskStatus, apiLog, pc >>
    /\ UNCHANGED << errorLog, auditUp, deletePc, deleted >>
    /\ UNCHANGED << agentVars, planVars, fsVars >>
    /\ UNCHANGED << taskCompletedAt, taskSteps, planLen, idx, snap, err,
                    cancelPc, closePc, everFailed, cancelPos >>

(***************************************************************************)
(* POST /api/tasks/[id]/cancel                                             *)
(***************************************************************************)
CancellableStates == {"PLANNING", "IN_PROGRESS"}

CancelFind(t) ==
    /\ cancelPc[t] = "idle"
    /\ IF HasTask(t) /\ taskStatus[t] \in CancellableStates
       THEN cancelPc' = [cancelPc EXCEPT ![t] = "updateTask"]
       ELSE UNCHANGED cancelPc   \* 404 or 400: the request is rejected
    /\ UNCHANGED << agentVars, planVars, fsVars >>
    /\ UNCHANGED << apiLog, errorLog, auditUp, deletePc, deleted >>
    /\ UNCHANGED << taskStatus, taskCompletedAt, taskSteps, execPc, pc, planLen, idx, snap,
                    err, closePc, everFailed, cancelPos >>

\* task.update({ data: { status: 'FAILED' } }) and the log entry
CancelUpdateTask(t) ==
    /\ cancelPc[t] = "updateTask"
    /\ IF HasTask(t)
       THEN /\ taskStatus' = [taskStatus EXCEPT ![t] = "FAILED"]
            /\ cancelPc' = [cancelPc EXCEPT ![t] = "updateSteps"]
            /\ cancelPos' = [e \in Execs |-> IF TaskOf(e) = t THEN << pc[e], idx[e] >>
                                              ELSE cancelPos[e]]
       ELSE /\ cancelPc' = [cancelPc EXCEPT ![t] = "idle"]   \* task.update rejects: 500
            /\ UNCHANGED << taskStatus, cancelPos >>
    /\ UNCHANGED << agentVars, planVars, fsVars >>
    /\ UNCHANGED << apiLog, errorLog, auditUp, deletePc, deleted >>
    /\ UNCHANGED << taskCompletedAt, taskSteps, execPc, pc, planLen, idx, snap, err,
                    closePc, everFailed >>

\* Faulty variant of CancelledSteps: the updateMany filter without taskId
CancelledSteps_AnyTask(t) ==
    { IF s.status = "IN_PROGRESS"
      THEN [s EXCEPT !.status = "FAILED", !.completedAt = TRUE]
      ELSE s : s \in taskSteps }

\* taskStep.updateMany({ where: { taskId, status: 'IN_PROGRESS' }, data: { status: 'FAILED', completedAt } })
CancelledSteps(t) ==
    { IF s.taskId = t /\ s.status = "IN_PROGRESS"
      THEN [s EXCEPT !.status = "FAILED", !.completedAt = TRUE]
      ELSE s : s \in taskSteps }

CancelUpdateSteps(t) ==
    /\ cancelPc[t] = "updateSteps"
    /\ taskSteps' = CancelledSteps(t)
    /\ everFailed' = everFailed \cup FailedIds(taskSteps')
    /\ cancelPc' = [cancelPc EXCEPT ![t] = "idle"]
    /\ UNCHANGED << agentVars, planVars, fsVars >>
    /\ UNCHANGED << apiLog, errorLog, auditUp, deletePc, deleted >>
    /\ UNCHANGED << taskStatus, taskCompletedAt, execPc, pc, planLen, idx, snap, err,
                    closePc, cancelPos >>

(***************************************************************************)
(* POST /api/tasks/[id]/close                                              *)
(***************************************************************************)
CloseFind(t) ==
    /\ closePc[t] = "idle"
    /\ IF HasTask(t) /\ taskStatus[t] = "RESOLVED"
       THEN closePc' = [closePc EXCEPT ![t] = "update"]
       ELSE UNCHANGED closePc   \* 404 or 400: the request is rejected
    /\ UNCHANGED << agentVars, planVars, fsVars >>
    /\ UNCHANGED << apiLog, errorLog, auditUp, deletePc, deleted >>
    /\ UNCHANGED << taskStatus, taskCompletedAt, taskSteps, execPc, pc, planLen, idx, snap,
                    err, cancelPc, everFailed, cancelPos >>

\* task.update({ data: { status: 'CLOSED', completedAt } }) and the log entry
CloseUpdate(t) ==
    /\ closePc[t] = "update"
    /\ IF HasTask(t)
       THEN /\ taskStatus' = [taskStatus EXCEPT ![t] = "CLOSED"]
            /\ taskCompletedAt' = [taskCompletedAt EXCEPT ![t] = TRUE]
       ELSE UNCHANGED << taskStatus, taskCompletedAt >>   \* task.update rejects: 500
    /\ closePc' = [closePc EXCEPT ![t] = "idle"]
    /\ UNCHANGED << agentVars, planVars, fsVars >>
    /\ UNCHANGED << apiLog, errorLog, auditUp, deletePc, deleted >>
    /\ UNCHANGED << taskSteps, execPc, pc, planLen, idx, snap, err, cancelPc,
                    everFailed, cancelPos >>

(***************************************************************************)
(* DELETE /api/tasks/[id]                                                  *)
(***************************************************************************)
finalStates == {"CLOSED", "FAILED"}

\* findUnique and the checks on the row it read
DeleteFind(t) ==
    /\ deletePc[t] = "idle"
    /\ IF HasTask(t) /\ taskStatus[t] \in finalStates
       THEN deletePc' = [deletePc EXCEPT ![t] = "delete"]
       ELSE UNCHANGED deletePc   \* 404 or 400: the request is rejected
    /\ UNCHANGED << agentVars, planVars, fsVars >>
    /\ UNCHANGED << apiLog, errorLog, auditUp, deleted >>
    /\ UNCHANGED << taskStatus, taskCompletedAt, taskSteps, execPc, pc, planLen, idx, snap,
                    err, cancelPc, closePc, everFailed, cancelPos >>

\* task.delete({ where: { id } }); the steps and the log rows of the task go with it
\* (onDelete: Cascade)
DeleteTask(t) ==
    /\ deletePc[t] = "delete"
    /\ IF HasTask(t)
       THEN /\ deleted' = deleted \cup {t}
            /\ taskSteps' = taskSteps \ StepsOf(t)
            /\ apiLog' = { e \in apiLog : TaskOf(e) # t }
            /\ errorLog' = { l \in errorLog : l.taskId # t }
       ELSE UNCHANGED << deleted, taskSteps, apiLog, errorLog >>   \* task.delete rejects: 500
    /\ deletePc' = [deletePc EXCEPT ![t] = "idle"]
    /\ UNCHANGED << agentVars, planVars, fsVars >>
    /\ UNCHANGED << taskStatus, taskCompletedAt, execPc, auditUp, pc, planLen, idx, snap,
                    err, cancelPc, closePc, everFailed, cancelPos >>

(***************************************************************************)
(* ExecutorAgent.executeTask, one action per await.                        *)
(***************************************************************************)
\* findUnique of the task row; without a row executeTask throws before its try
ExFindTask(e) ==
    /\ pc[e] = "findTask"
    /\ pc' = [pc EXCEPT ![e] = IF HasTask(TaskOf(e)) THEN "setPlanning" ELSE "done"]
    /\ UNCHANGED << agentVars, planVars, fsVars >>
    /\ UNCHANGED << apiLog, errorLog, auditUp, deletePc, deleted >>
    /\ UNCHANGED << taskStatus, taskCompletedAt, taskSteps, execPc, planLen, idx, snap, err,
                    cancelPc, closePc, everFailed, cancelPos >>

\* ExecutorAgent.updateTaskStatus: an unconditional write of the status
updateTaskStatus(t, status) == [taskStatus EXCEPT ![t] = status]

ExSetPlanning(e) ==
    /\ pc[e] = "setPlanning"
    /\ IF HasTask(TaskOf(e))
       THEN /\ taskStatus' = updateTaskStatus(TaskOf(e), "PLANNING")
            /\ pc' = [pc EXCEPT ![e] = "createPlan"]
            /\ UNCHANGED err
       ELSE /\ err' = [err EXCEPT ![e] = "store"]   \* task.update rejects
            /\ pc' = [pc EXCEPT ![e] = "handleError"]
            /\ UNCHANGED taskStatus
    /\ UNCHANGED << agentVars, planVars, fsVars >>
    /\ UNCHANGED << apiLog, errorLog, auditUp, deletePc, deleted >>
    /\ UNCHANGED << taskCompletedAt, taskSteps, execPc, planLen, idx, snap,
                    cancelPc, closePc, everFailed, cancelPos >>

\* planner.createPlan(task) returns the plan parsed from the collaborator's response
ExCreatePlan(e) ==
    /\ pc[e] = "createPlan"
    /\ \E n \in PlanLengths : planLen' = [planLen EXCEPT ![e] = n]
    /\ pc' = [pc EXCEPT ![e] = "deleteSteps"]
    /\ UNCHANGED << agentVars, planVars, fsVars >>
    /\ UNCHANGED << apiLog, errorLog, auditUp, deletePc, deleted >>
    /\ UNCHANGED << taskStatus, taskCompletedAt, taskSteps, execPc, idx, snap, err,
                    cancelPc, closePc, everFailed, cancelPos >>

\* getLLMResponse rethrows the collaborator's error: createPlan rejects
ExCreatePlanRaises(e) ==
    /\ pc[e] = "createPlan"
    /\ err' = [err EXCEPT ![e] = "planner"]
    /\ pc' = [pc EXCEPT ![e] = "handleError"]
    /\ UNCHANGED << agentVars, planVars, fsVars >>
    /\ UNCHANGED << apiLog, errorLog, auditUp, deletePc, deleted >>
    /\ UNCHANGED << taskStatus, taskCompletedAt, taskSteps, execPc, planLen, idx, snap,
                    cancelPc, closePc, everFailed, cancelPos >>

\* storePlanSteps: taskStep.deleteMany({ where: { taskId } })
ExDeleteSteps(e) ==
    /\ pc[e] = "deleteSteps"
    /\ taskSteps' = deleteMany(taskSteps, TaskOf(e))
    /\ idx' = [idx EXCEPT ![e] = 0]
    /\ pc' = [pc EXCEPT ![e] = IF planLen[e] = 0 THEN "setInProgress" ELSE "createStep"]
    /\ UNCHANGED << agentVars, planVars, fsVars >>
    /\ UNCHANGED << apiLog, errorLog, auditUp, deletePc, deleted >>
    /\ UNCHANGED << taskStatus, taskCompletedAt, execPc, planLen, snap, err,
                    cancelPc, closePc, everFailed, cancelPos >>

\* Faulty variant of NewStep: stepNumber: i instead of i + 1
NewStep_ZeroBased(e, i) ==
    [id |-> << e, i >>, taskId |-> TaskOf(e), stepNumber |-> i, status |-> "PENDING",
     startedAt |-> FALSE, completedAt |-> FALSE]

\* The row storePlanSteps creates at loop index i; << e, i >> stands for its fresh cuid.
NewStep(e, i) ==
    [id |-> << e, i >>, taskId |-> TaskOf(e), stepNumber |-> i + 1, status |-> "PENDING",
     startedAt |-> FALSE, completedAt |-> FALSE]

\* storePlanSteps: taskStep.create at index idx; @@unique([taskId, stepNumber]) rejects a duplicate
ExCreateStep(e) ==
    LET row == NewStep(e, idx[e]) IN
    /\ pc[e] = "createStep"
    /\ IF \/ ~HasTask(row.taskId)   \* taskId is a foreign key to Task
          \/ \E s \in taskSteps : s.taskId = row.taskId /\ s.stepNumber = row.stepNumber
       THEN /\ err' = [err EXCEPT ![e] = "store"]
            /\ pc' = [pc EXCEPT ![e] = "handleError"]
            /\ UNCHANGED << taskSteps, idx >>
       ELSE /\ taskSteps' = taskSteps \cup {row}
            /\ idx' = [idx EXCEPT ![e] = idx[e] + 1]
            /\ pc' = [pc EXCEPT ![e] = IF idx[e] + 1 < planLen[e] THEN "createStep"
                                       ELSE "setInProgress"]
            /\ UNCHANGED err
    /\ UNCHANGED << agentVars, planVars, fsVars >>
    /\ UNCHANGED << apiLog, errorLog, auditUp, deletePc, deleted >>
    /\ UNCHANGED << taskStatus, taskCompletedAt, execPc, planLen, snap,
                    cancelPc, closePc, everFailed, cancelPos >>

ExSetInProgress(e) ==
    /\ pc[e] = "setInProgress"
    /\ IF HasTask(TaskOf(e))
       THEN /\ taskStatus' = updateTaskStatus(TaskOf(e), "IN_PROGRESS")
            /\ pc' = [pc EXCEPT ![e] = "findSteps"]
            /\ UNCHANGED err
       ELSE /\ err' = [err EXCEPT ![e] = "store"]   \* task.update rejects
            /\ pc' = [pc EXCEPT ![e] = "handleError"]
            /\ UNCHANGED taskStatus
    /\ UNCHANGED << agentVars, planVars, fsVars >>
    /\ UNCHANGED << apiLog, errorLog, auditUp, deletePc, deleted >>
    /\ UNCHANGED << taskCompletedAt, taskSteps, execPc, planLen, idx, snap,
                    cancelPc, closePc, everFailed, cancelPos >>

\* executeTaskSteps: findMany, then the first iteration starts with no status check
ExFindSteps(e) ==
    /\ pc[e] = "findSteps"
    /\ snap' = [snap EXCEPT ![e] = SortedIds(StepsOf(TaskOf(e)))]
    /\ idx' = [idx EXCEPT ![e] = 1]
    /\ pc' = [pc EXCEPT ![e] = IF snap'[e] = << >> THEN "setResolved" ELSE "stepStart"]
    /\ UNCHANGED << agentVars, planVars, fsVars >>
    /\ UNCHANGED << apiLog, errorLog, auditUp, deletePc, deleted >>
    /\ UNCHANGED << taskStatus, taskCompletedAt, taskSteps, execPc, planLen, err,
                    cancelPc, closePc, everFailed, cancelPos >>

\* executeTaskStep: taskStep.update to IN_PROGRESS with startedAt
ExStepStart(e) ==
    LET id == snap[e][idx[e]] IN
    /\ pc[e] = "stepStart"
    /\ IF HasStep(id)
       THEN /\ taskSteps' = UpdateStep(id, "IN_PROGRESS", TRUE, FALSE)
            /\ pc' = [pc EXCEPT ![e] = "executeStep"]
            /\ UNCHANGED err
       ELSE /\ err' = [err EXCEPT ![e] = "store"]
            /\ pc' = [pc EXCEPT ![e] = "stepError"]
            /\ UNCHANGED taskSteps
    /\ UNCHANGED << agentVars, planVars, fsVars >>
    /\ UNCHANGED << apiLog, errorLog, auditUp, deletePc, deleted >>
    /\ UNCHANGED << taskStatus, taskCompletedAt, execPc, planLen, idx, snap,
                    cancelPc, closePc, everFailed, cancelPos >>

\* agent.executeStep(step) returns; its result is not used
ExExecuteStep(e) ==
    /\ pc[e] = "executeStep"
    /\ pc' = [pc EXCEPT ![e] = "stepComplete"]
    /\ UNCHANGED << agentVars, planVars, fsVars >>
    /\ UNCHANGED << apiLog, errorLog, auditUp, deletePc, deleted >>
    /\ UNCHANGED << taskStatus, taskCompletedAt, taskSteps, execPc, planLen, idx, snap, err,
                    cancelPc, closePc, everFailed, cancelPos >>

\* agent.executeStep(step) rejects
ExExecuteStepRaises(e) ==
    /\ pc[e] = "executeStep"
    /\ err' = [err EXCEPT ![e] = "agent"]
    /\ pc' = [pc EXCEPT ![e] = "stepError"]
    /\ UNCHANGED << agentVars, planVars, fsVars >>
    /\ UNCHANGED << apiLog, errorLog, auditUp, deletePc, deleted >>
    /\ UNCHANGED << taskStatus, taskCompletedAt, taskSteps, execPc, planLen, idx, snap,
                    cancelPc, closePc, everFailed, cancelPos >>

\* executeTaskStep: taskStep.update to COMPLETED with completedAt
ExStepComplete(e) ==
    LET id == snap[e][idx[e]] IN
    /\ pc[e] = "stepComplete"
    /\ IF HasStep(id)
       THEN /\ taskSteps' = UpdateStep(id, "COMPLETED", FALSE, TRUE)
            /\ pc' = [pc EXCEPT ![e] = "checkStatus"]
            /\ UNCHANGED err
       ELSE /\ err' = [err EXCEPT ![e] = "store"]
            /\ pc' = [pc EXCEPT ![e] = "stepError"]
            /\ UNCHANGED taskSteps
    /\ UNCHANGED << agentVars, planVars, fsVars >>
    /\ UNCHANGED << apiLog, errorLog, auditUp, deletePc, deleted >>
    /\ UNCHANGED << taskStatus, taskCompletedAt, execPc, planLen, idx, snap,
                    cancelPc, closePc, everFailed, cancelPos >>

\* Faulty variant of createAgentLog: the row is never written
createAgentLog_Dropped(log, row, accepted) == log

\* createAgentLog: agentLog.create in a try whose catch only prints, so a rejected
\* write leaves the log as it was and the caller goes on
createAgentLog(log, row, accepted) == IF accepted THEN log \cup {row} ELSE log

\* The row logError writes: level ERROR, the task, the step or null, the error message
ErrorRow(t, step, error) == [taskId |-> t, stepId |-> step, error |-> error]

\* Faulty variant of ExStepError: the catch block without `throw error`
ExStepError_Swallowed(e) ==
    /\ pc[e] = "stepError"
    /\ taskSteps' = UpdateStep(snap[e][idx[e]], "FAILED", FALSE, TRUE)
    /\ everFailed' = everFailed \cup FailedIds(taskSteps')
    /\ pc' = [pc EXCEPT ![e] = "checkStatus"]
    /\ UNCHANGED << agentVars, planVars, fsVars >>
    /\ UNCHANGED << apiLog, errorLog, auditUp, deletePc, deleted >>
    /\ UNCHANGED << taskStatus, taskCompletedAt, execPc, planLen, idx, snap, err,
                    cancelPc, closePc, cancelPos >>

\* handleStepExecutionError: logError against the step (the row's stepId is a foreign
\* key to TaskStep), taskStep.update to FAILED with completedAt, then executeTaskStep
\* rethrows to executeTask's catch
ExStepError(e) ==
    LET id == snap[e][idx[e]] IN
    /\ pc[e] = "stepError"
    /\ errorLog' = createAgentLog(errorLog, ErrorRow(TaskOf(e), id, err[e]),
                                  auditUp /\ HasStep(id))
    /\ taskSteps' = UpdateStep(id, "FAILED", FALSE, TRUE)
    /\ everFailed' = everFailed \cup FailedIds(taskSteps')
    /\ pc' = [pc EXCEPT ![e] = "handleError"]
    /\ UNCHANGED << agentVars, planVars, fsVars >>
    /\ UNCHANGED << apiLog, auditUp, deletePc, deleted >>
    /\ UNCHANGED << taskStatus, taskCompletedAt, execPc, planLen, idx, snap, err,
                    cancelPc, closePc, cancelPos >>

\* Faulty variant of BreakOnStatus: the loop without its break
BreakOnStatus_Never(status) == FALSE

\* executeTaskSteps: `if (task?.status === 'FAILED') break`
BreakOnStatus(status) == status = "FAILED"

\* executeTaskSteps: the task row re-read after a step, then the next iteration or the end
ExCheckStatus(e) ==
    /\ pc[e] = "checkStatus"
    /\ IF \/ HasTask(TaskOf(e)) /\ BreakOnStatus(taskStatus[TaskOf(e)])
          \/ idx[e] = Len(snap[e])
       THEN /\ pc' = [pc EXCEPT ![e] = "setResolved"]
            /\ UNCHANGED idx
       ELSE /\ pc' = [pc EXCEPT ![e] = "stepStart"]
            /\ idx' = [idx EXCEPT ![e] = idx[e] + 1]
    /\ UNCHANGED << agentVars, planVars, fsVars >>
    /\ UNCHANGED << apiLog, errorLog, auditUp, deletePc, deleted >>
    /\ UNCHANGED << taskStatus, taskCompletedAt, taskSteps, execPc, planLen, snap, err,
                    cancelPc, closePc, everFailed, cancelPos >>

\* executeTask: updateTaskStatus(taskId, 'RESOLVED') after executeTaskSteps returns
ExSetResolved(e) ==
    /\ pc[e] = "setResolved"
    /\ IF HasTask(TaskOf(e))
       THEN /\ taskStatus' = updateTaskStatus(TaskOf(e), "RESOLVED")
            /\ pc' = [pc EXCEPT ![e] = "done"]
            /\ UNCHANGED err
       ELSE /\ err' = [err EXCEPT ![e] = "store"]   \* task.update rejects
            /\ pc' = [pc EXCEPT ![e] = "handleError"]
            /\ UNCHANGED taskStatus
    /\ UNCHANGED << agentVars, planVars, fsVars >>
    /\ UNCHANGED << apiLog, errorLog, auditUp, deletePc, deleted >>
    /\ UNCHANGED << taskCompletedAt, taskSteps, execPc, planLen, idx, snap,
                    cancelPc, closePc, everFailed, cancelPos >>

\* handleExecutionError: logError against the task (the row's taskId is a foreign key
\* to Task), then updateTaskStatus(taskId, 'FAILED'); without a task row that update
\* rejects and executeTask rejects with it
ExHandleError(e) ==
    /\ pc[e] = "handleError"
    /\ errorLog' = createAgentLog(errorLog, ErrorRow(TaskOf(e), << >>, err[e]),
                                  auditUp /\ HasTask(TaskOf(e)))
    /\ taskStatus' = IF HasTask(TaskOf(e)) THEN updateTaskStatus(TaskOf(e), "FAILED")
                     ELSE taskStatus
    /\ pc' = [pc EXCEPT ![e] = "done"]
    /\ UNCHANGED << agentVars, planVars, fsVars >>
    /\ UNCHANGED << apiLog, auditUp, deletePc, deleted >>
    /\ UNCHANGED << taskCompletedAt, taskSteps, execPc, planLen, idx, snap, err,
                    cancelPc, closePc, everFailed, cancelPos >>

Executor(e) ==
    \/ ExFindTask(e) \/ ExSetPlanning(e) \/ ExCreatePlan(e) \/ ExCreatePlanRaises(e)
    \/ ExDeleteSteps(e) \/ ExCreateStep(e) \/ ExSetInProgress(e) \/ ExFindSteps(e)
    \/ ExStepStart(e) \/ ExExecuteStep(e) \/ ExExecuteStepRaises(e) \/ ExStepComplete(e)
    \/ ExStepError(e) \/ ExCheckStatus(e) \/ ExSetResolved(e) \/ ExHandleError(e)

\* The cancel and close requests for one task
Requests(t) ==
    \/ CancelFind(t) \/ CancelUpdateTask(t) \/ CancelUpdateSteps(t)
    \/ CloseFind(t) \/ CloseUpdate(t)

\* One task is executed, cancelled and closed; the other task is never touched.
Next ==
    \/ ExecFind("e1") \/ ExecUpdate("e1") \/ Executor("e1")
    \/ Requests("t1")

Spec == Init /\ [][Next]_vars

\* The same, beside an execution of the second task.
NextTwo ==
    \/ Next
    \/ ExecFind("e2") \/ ExecUpdate("e2") \/ Executor("e2")

SpecTwo == Init /\ [][NextTwo]_vars

\* A second execute request for the first task reads PENDING together with the
\* first one, and its executor starts once the first executor is done: the task
\* is executed again, by one executor at a time.
NextRerun ==
    \/ Next
    \/ ExecFind("e3")
    \/ pc["e1"] = "done" /\ ExecUpdate("e3")
    \/ Executor("e3")

SpecRerun == Init /\ [][NextRerun]_vars

\* Two execute requests for the first task arrive together: each reads the row
\* before the other's update, and each starts an executor.
NextOverlap ==
    \/ ExecFind("e1") \/ ExecUpdate("e1") \/ Executor("e1")
    \/ ExecFind("e3") \/ ExecUpdate("e3") \/ Executor("e3")

SpecOverlap == Init /\ [][NextOverlap]_vars

\* One execute request for each task and the executors they start, in a run whose
\* audit store accepts every write or rejects every one.
NextAudit == \E e \in {"e1", "e2"} : ExecFind(e) \/ ExecUpdate(e) \/ Executor(e)

SpecAudit == InitAudit /\ [][NextAudit]_vars

\* One task is executed, cancelled, closed and deleted.
NextDelete == Next \/ DeleteFind("t1") \/ DeleteTask("t1")

SpecDelete == Init /\ [][NextDelete]_vars

\* One task is executed, cancelled and deleted beside an execution of the second task.
NextTwoDelete ==
    \/ ExecFind("e1") \/ ExecUpdate("e1") \/ Executor("e1")
    \/ CancelFind("t1") \/ CancelUpdateTask("t1") \/ CancelUpdateSteps("t1")
    \/ DeleteFind("t1") \/ DeleteTask("t1")
    \/ ExecFind("e2") \/ ExecUpdate("e2") \/ Executor("e2")

SpecTwoDelete == Init /\ [][NextTwoDelete]_vars

(***************************************************************************)
(* Planner.parsePlanFromLLMResponse, line by line.                         *)
(***************************************************************************)
\* The call: `response` is any of the collaborator's responses; the loop starts at
\* the first line with no step
InitParse ==
    /\ InitTasks /\ InitNoStep /\ InitNoFile /\ auditUp = TRUE
    /\ llmResponse \in LLMResponses
    /\ lineIdx = 1
    /\ planSteps = << >>
    /\ currentStep = << >>
    /\ completedStepIndices = {}
    /\ updatePrompt = << >>

\* One iteration of `for (const line of lines)`
PlLine ==
    LET lines == SplitLines(llmResponse)
        st == ParseLine([steps |-> planSteps, cur |-> currentStep], lines[lineIdx])
    IN  /\ lineIdx \in 1..Len(lines)
        /\ planSteps' = st.steps
        /\ currentStep' = st.cur
        /\ lineIdx' = lineIdx + 1
        /\ UNCHANGED << taskVars, agentVars, fsVars, llmResponse, completedStepIndices, updatePrompt >>

\* After the loop: the last step is pushed if there is one, and planSteps returned
PlReturn ==
    /\ lineIdx = Len(SplitLines(llmResponse)) + 1
    /\ planSteps' = planSteps \o currentStep
    /\ lineIdx' = lineIdx + 1
    /\ UNCHANGED << taskVars, agentVars, fsVars, llmResponse, currentStep, completedStepIndices,
                    updatePrompt >>

NextParse == PlLine \/ PlReturn

SpecParse == InitParse /\ [][NextParse]_vars

(***************************************************************************)
(* Planner.updatePlan.                                                     *)
(***************************************************************************)
\* Largest number of lines in the collaborator's answer to an update request.
MaxUpdateLines == 2

UpdateResponses ==
    { JoinLines(ls) : ls \in UNION { [1..n -> SampleLines] : n \in 1..MaxUpdateLines } }

\* Math.max(...values): the largest element of a non-empty set of numbers
Max(values) == CHOOSE v \in values : \A o \in values : o <= v

\* constructPlanUpdatePrompt: the numbers after "Completed steps:" and the number
\* after "starting from step"
constructPlanUpdatePrompt(completed) ==
    [completedSteps |-> { i + 1 : i \in completed },
     startingFrom |-> Max(completed \cup {0}) + 1]

\* The call: completedStepIndices is any set of indices of a plan of up to MaxPlan steps
InitUpdate ==
    /\ InitTasks /\ InitNoStep /\ InitNoFile /\ auditUp = TRUE
    /\ completedStepIndices \in SUBSET (0..(MaxPlan - 1))
    /\ updatePrompt = << >>
    /\ llmResponse = << >>
    /\ lineIdx = 0
    /\ planSteps = << >>
    /\ currentStep = << >>

\* const prompt = this.constructPlanUpdatePrompt(...)
UpPrompt ==
    /\ updatePrompt = << >>
    /\ updatePrompt' = << constructPlanUpdatePrompt(completedStepIndices) >>
    /\ UNCHANGED << taskVars, agentVars, fsVars, llmResponse, lineIdx, planSteps, currentStep,
                    completedStepIndices >>

\* const updatedPlanText = await getLLMResponse(prompt), then the parser is entered
UpResponse ==
    /\ updatePrompt # << >>
    /\ lineIdx = 0
    /\ llmResponse' \in UpdateResponses
    /\ lineIdx' = 1
    /\ UNCHANGED << taskVars, agentVars, fsVars, planSteps, currentStep, completedStepIndices,
                    updatePrompt >>

NextUpdate == UpPrompt \/ UpResponse \/ PlLine \/ PlReturn

SpecUpdate == InitUpdate /\ [][NextUpdate]_vars

\* Beside the execution of the first task, requests that must be refused: a second
\* request for the first task that arrives after its execution has started, a
\* request for a task that does not exist, and one for the first task by another user.
NextRefused ==
    \/ Next
    \/ "e1" \in apiLog /\ ExecFind("e3")
    \/ ExecFind("e4")
    \/ ExecFind("e5")

SpecRefused == Init /\ [][NextRefused]_vars

(***************************************************************************)
(* Handler selection.  Descriptions and keywords are sequences of          *)
(* one-character strings.                                                  *)
(***************************************************************************)
\* String.prototype.includes
Includes(s, t) == \E i \in 1..(Len(s) - Len(t) + 1) : SubSeq(s, i, i + Len(t) - 1) = t

UpperCase == << "A", "B", "C", "D", "E", "F", "G", "H", "I", "J", "K", "L", "M", "N", "O", "P", "Q", "R", "S", "T", "U", "V", "W", "X", "Y", "Z" >>

LowerCase == << "a", "b", "c", "d", "e", "f", "g", "h", "i", "j", "k", "l", "m", "n", "o", "p", "q", "r", "s", "t", "u", "v", "w", "x", "y", "z" >>

\* String.prototype.toLowerCase
toLowerCase(s) ==
    [i \in 1..Len(s) |->
        IF \E k \in 1..26 : UpperCase[k] = s[i]
        THEN LowerCase[CHOOSE k \in 1..26 : UpperCase[k] = s[i]]
        ELSE s[i]]

\* keywords.some(keyword => description.includes(keyword))
IncludesAny(s, keywords) == \E k \in keywords : Includes(s, k)

\* ExecutorAgent.analyzeStepForAgentSelection: the handler name executeTaskStep asks for
analyzeStepForAgentSelection(desc) ==
    LET d == toLowerCase(desc) IN
    IF Includes(d, << "d", "a", "t", "a" >>) \/ Includes(d, << "a", "n", "a", "l", "y", "z", "e" >>) THEN "DataAnalysisAgent"
    ELSE IF Includes(d, << "w", "e", "b" >>) \/ Includes(d, << "b", "r", "o", "w", "s", "e" >>) \/ Includes(d, << "s", "e", "a", "r", "c", "h" >>)
    THEN "WebBrowsingAgent"
    ELSE IF Includes(d, << "f", "i", "l", "e" >>) \/ Includes(d, << "d", "o", "c", "u", "m", "e", "n", "t" >>) THEN "DocumentProcessingAgent"
    ELSE IF Includes(d, << "c", "o", "d", "e" >>) \/ Includes(d, << "p", "r", "o", "g", "r", "a", "m" >>) THEN "CodeExecutionAgent"
    ELSE "GeneralPurposeAgent"

\* The names registered by SpecializedAgentRegistry's constructor, in Map insertion order
RegisteredAgents ==
    << "WebBrowsingAgent", "DataAnalysisAgent", "DocumentProcessingAgent",
       "CodeExecutionAgent", "GeneralPurposeAgent" >>

\* SpecializedAgentRegistry.getAgent: an unknown name falls back to the general purpose handler
getAgent(name) ==
    IF \E k \in 1..Len(RegisteredAgents) : RegisteredAgents[k] = name THEN name
    ELSE "GeneralPurposeAgent"

webKeywords ==
    { << "w", "e", "b" >>, << "b", "r", "o", "w", "s", "e" >>, << "b", "r", "o", "w", "s", "e", "r" >>, << "w", "e", "b", "s", "i", "t", "e" >>, << "u", "r", "l" >>, << "h", "t", "t", "p" >>, << "s", "e", "a", "r", "c", "h" >>, << "n", "a", "v", "i", "g", "a", "t", "e" >>,
      << "v", "i", "s", "i", "t" >>, << "p", "a", "g", "e" >>, << "i", "n", "t", "e", "r", "n", "e", "t" >>, << "o", "n", "l", "i", "n", "e" >>, << "g", "o", "o", "g", "l", "e" >>, << "d", "o", "w", "n", "l", "o", "a", "d" >>, << "s", "c", "r", "a", "p", "e" >>,
      << "e", "x", "t", "r", "a", "c", "t" >> }

dataKeywords ==
    { << "d", "a", "t", "a" >>, << "a", "n", "a", "l", "y", "s", "i", "s" >>, << "a", "n", "a", "l", "y", "z", "e" >>, << "s", "t", "a", "t", "i", "s", "t", "i", "c", "s" >>, << "s", "t", "a", "t", "i", "s", "t", "i", "c", "a", "l" >>, << "v", "i", "s", "u", "a", "l", "i", "z", "a", "t", "i", "o", "n" >>,
      << "v", "i", "s", "u", "a", "l", "i", "z", "e" >>, << "c", "h", "a", "r", "t" >>, << "g", "r", "a", "p", "h" >>, << "p", "l", "o", "t" >>, << "e", "x", "c", "e", "l" >>, << "c", "s", "v" >>, << "d", "a", "t", "a", "s", "e", "t" >>, << "p", "a", "n", "d", "a", "s" >>,
      << "n", "u", "m", "p", "y" >>, << "c", "o", "r", "r", "e", "l", "a", "t", "i", "o", "n" >>, << "r", "e", "g", "r", "e", "s", "s", "i", "o", "n" >>, << "m", "e", "a", "n" >>, << "m", "e", "d", "i", "a", "n" >>, << "a", "v", "e", "r", "a", "g", "e" >>,
      << "s", "t", "a", "n", "d", "a", "r", "d", " ", "d", "e", "v", "i", "a", "t", "i", "o", "n" >> }

documentKeywords ==
    { << "d", "o", "c", "u", "m", "e", "n", "t" >>, << "f", "i", "l", "e" >>, << "t", "e", "x", "t" >>, << "p", "d", "f" >>, << "w", "o", "r", "d" >>, << "d", "o", "c", "x" >>, << "e", "x", "c", "e", "l" >>, << "x", "l", "s", "x" >>, << "r", "e", "a", "d" >>,
      << "w", "r", "i", "t", "e" >>, << "c", "r", "e", "a", "t", "e" >>, << "u", "p", "d", "a", "t", "e" >>, << "m", "e", "r", "g", "e" >>, << "e", "x", "t", "r", "a", "c", "t" >>, << "c", "o", "n", "v", "e", "r", "t" >>, << "r", "e", "p", "o", "r", "t" >>,
      << "t", "e", "m", "p", "l", "a", "t", "e" >>, << "f", "o", "r", "m", "a", "t" >>, << "m", "a", "r", "k", "d", "o", "w", "n" >>, << "h", "t", "m", "l" >> }

codeKeywords ==
    { << "c", "o", "d", "e" >>, << "s", "c", "r", "i", "p", "t" >>, << "p", "r", "o", "g", "r", "a", "m" >>, << "f", "u", "n", "c", "t", "i", "o", "n" >>, << "a", "l", "g", "o", "r", "i", "t", "h", "m" >>, << "p", "y", "t", "h", "o", "n" >>, << "j", "a", "v", "a", "s", "c", "r", "i", "p", "t" >>,
      << "t", "y", "p", "e", "s", "c", "r", "i", "p", "t" >>, << "n", "o", "d", "e" >>, << "n", "o", "d", "e", "j", "s" >>, << "e", "x", "e", "c", "u", "t", "e" >>, << "r", "u", "n" >>, << "c", "o", "m", "p", "i", "l", "e" >>, << "b", "u", "i", "l", "d" >>,
      << "d", "e", "v", "e", "l", "o", "p" >>, << "o", "p", "t", "i", "m", "i", "z", "e" >>, << "r", "e", "f", "a", "c", "t", "o", "r" >>, << "d", "e", "b", "u", "g" >>, << "f", "i", "x" >>, << "i", "m", "p", "l", "e", "m", "e", "n", "t" >> }

\* canHandleStep of the handler registered under the name
canHandleStep(name, desc) ==
    LET d == toLowerCase(desc) IN
    CASE name = "WebBrowsingAgent" -> IncludesAny(d, webKeywords)
      [] name = "DataAnalysisAgent" -> IncludesAny(d, dataKeywords)
      [] name = "DocumentProcessingAgent" -> IncludesAny(d, documentKeywords)
      [] name = "CodeExecutionAgent" -> IncludesAny(d, codeKeywords)
      [] OTHER -> TRUE

\* SpecializedAgentRegistry.selectAgentForStep: the first registered handler, the
\* general purpose one skipped, whose canHandleStep accepts; else the general purpose one
selectAgentForStep(desc) ==
    LET accepting == { k \in 1..Len(RegisteredAgents) :
                          /\ RegisteredAgents[k] # "GeneralPurposeAgent"
                          /\ canHandleStep(RegisteredAgents[k], desc) }
    IN  IF accepting = {} THEN getAgent("GeneralPurposeAgent")
        ELSE RegisteredAgents[CHOOSE k \in accepting : \A o \in accepting : k <= o]

\* The step description "Summarize URL https://example.com"
SummarizeUrl ==
    << "S", "u", "m", "m", "a", "r", "i", "z", "e", " ", "U", "R", "L", " ", "h", "t", "t", "p", "s", ":", "/", "/", "e", "x", "a", "m", "p", "l", "e", ".", "c", "o", "m" >>

\* Descriptions of the steps handed to executeTaskStep.
StepDescriptions ==
    { << "a", "n", "a", "l", "y", "z", "e" >>,
      << "v", "i", "s", "i", "t", " ", "p", "a", "g", "e" >>,
      << "c", "r", "e", "a", "t", "e", " ", "f", "i", "l", "e" >>,
      << "c", "o", "d", "e" >>,
      << "a", "n", "a", "l", "y", "z", "e", " ", "d", "a", "t", "a", " ", "r", "e", "p", "o", "r", "t" >>,
      << "s", "e", "a", "r", "c", "h", " ", "w", "e", "b" >>,
      << "g", "o" >>,
      << "L", "o", "a", "d", " ", "C", "o", "d", "e", " ", "a", "n", "d", " ", "o", "p", "t", "i", "m", "i", "z", "e" >>,
      << "h", "t", "t", "p", ":", "/", "/", "a", ".", "b", " ", "g", "e", "t" >>,
      << "b", "r", "o", "w", "s", "e", " ", "h", "t", "t", "p", ":", "/", "/", "a", ".", "b" >>,
      << "d", "o", "c", "u", "m", "e", "n", "t" >>,
      << "s", "a", "v", "e", " ", "c", "o", "d", "e" >>,
      << "a", "n", "a", "l", "y", "z", "e", " ", "c", "h", "a", "r", "t", " ", "r", "e", "p", "o", "r", "t" >>,
      SummarizeUrl }
(***************************************************************************)
(* Actions.  An action is a record [type, params] (the general purpose     *)
(* handler's actions also carry `tool`); every parameter is one of the     *)
(* three values below.  Action indices are the 0-based array indices of    *)
(* the code: action i is actions[i + 1].                                   *)
(***************************************************************************)
\* A string parameter
Str(text) ==
    [kind |-> "string", text |-> text, resultFrom |-> 0, property |-> << >>, items |-> << >>]

\* { resultFrom, property? }: property is << >> when the object has no `property`
Reference(from, property) ==
    [kind |-> "reference", text |-> << >>, resultFrom |-> from, property |-> property,
     items |-> << >>]

\* An array parameter
Array(items) ==
    [kind |-> "array", text |-> << >>, resultFrom |-> 0, property |-> << >>, items |-> items]

PreviousResult == << "$", "{", "p", "r", "e", "v", "i", "o", "u", "s", "_", "r", "e", "s", "u", "l", "t", "}" >>

\* [a-zA-Z0-9_]
IdentChars ==
    { UpperCase[k] : k \in 1..26 } \cup { LowerCase[k] : k \in 1..26 } \cup Digits \cup {"_"}

\* text.match(/\$\{previous_result\.([a-zA-Z0-9_]+)\}/): match[1] of the leftmost
\* match, << >> when there is no match
PreviousResultProperty(text) ==
    LET open == << "$", "{", "p", "r", "e", "v", "i", "o", "u", "s", "_", "r", "e", "s", "u", "l", "t", "." >>
        at(p) == /\ SubSeq(text, p, p + Len(open) - 1) = open
                 /\ RunLen(text, p + Len(open), IdentChars) >= 1
                 /\ p + Len(open) + RunLen(text, p + Len(open), IdentChars) <= Len(text)
                 /\ text[p + Len(open) + RunLen(text, p + Len(open), IdentChars)] = "}"
        hits == { p \in 1..(Len(text) - Len(open) + 1) : at(p) }
    IN  IF hits = {} THEN << >>
        ELSE LET p == CHOOSE h \in hits : \A o \in hits : h <= o
             IN  SubSeq(text, p + Len(open),
                        p + Len(open) + RunLen(text, p + Len(open), IdentChars) - 1)

\* Faulty variant of PreviousIndex: the action refers to itself
PreviousIndex_Self(i) == i

\* `i - 1` of resolveActionDependencies: the action a sentinel of action i refers to
PreviousIndex(i) == i - 1

\* The last element of a non-empty action list
Last(list) == list[Len(list)]

(***************************************************************************)
(* CodeExecutionAgent: decomposer and dependency resolver.                 *)
(***************************************************************************)
\* The readings Date.now() can give inside a generated file name
Clock == { << "0" >>, << "1" >> }

\* The language analyzeStepForActions picks from the lower-cased description
Code_language(d) ==
    IF Includes(d, << "j", "a", "v", "a", "s", "c", "r", "i", "p", "t" >>) \/ Includes(d, << "j", "s" >>) THEN << "j", "a", "v", "a", "s", "c", "r", "i", "p", "t" >>
    ELSE IF Includes(d, << "t", "y", "p", "e", "s", "c", "r", "i", "p", "t" >>) \/ Includes(d, << "t", "s" >>) THEN << "t", "y", "p", "e", "s", "c", "r", "i", "p", "t" >>
    ELSE IF Includes(d, << "p", "y", "t", "h", "o", "n" >>) \/ Includes(d, << "p", "y" >>) THEN << "p", "y", "t", "h", "o", "n" >>
    ELSE IF Includes(d, << "b", "a", "s", "h" >>) \/ Includes(d, << "s", "h", "e", "l", "l" >>) THEN << "b", "a", "s", "h" >>
    ELSE IF Includes(d, << "r" >>) THEN << "r" >>
    ELSE IF Includes(d, << "r", "u", "b", "y" >>) \/ Includes(d, << "r", "b" >>) THEN << "r", "u", "b", "y" >>
    ELSE IF Includes(d, << "p", "h", "p" >>) THEN << "p", "h", "p" >>
    ELSE << "p", "y", "t", "h", "o", "n" >>

\* The file extension the two `switch (language)` blocks append to a path
Code_extension(language) ==
    CASE language = << "p", "y", "t", "h", "o", "n" >> -> << "p", "y" >>
      [] language = << "j", "a", "v", "a", "s", "c", "r", "i", "p", "t" >> -> << "j", "s" >>
      [] language = << "t", "y", "p", "e", "s", "c", "r", "i", "p", "t" >> -> << "t", "s" >>
      [] language = << "b", "a", "s", "h" >> -> << "s", "h" >>
      [] language = << "r" >> -> << "r" >>
      [] language = << "r", "u", "b", "y" >> -> << "r", "b" >>
      [] language = << "p", "h", "p" >> -> << "p", "h", "p" >>
      [] OTHER -> << "t", "x", "t" >>

\* The optimization criteria read from the description
Code_criteria(d) ==
    LET found ==
            (IF Includes(d, << "p", "e", "r", "f", "o", "r", "m", "a", "n", "c", "e" >>) \/ Includes(d, << "s", "p", "e", "e", "d" >>)
             THEN << Str(<< "p", "e", "r", "f", "o", "r", "m", "a", "n", "c", "e" >>) >> ELSE << >>)
         \o (IF Includes(d, << "m", "e", "m", "o", "r", "y" >>) \/ Includes(d, << "r", "e", "s", "o", "u", "r", "c", "e" >>)
             THEN << Str(<< "m", "e", "m", "o", "r", "y", "_", "u", "s", "a", "g", "e" >>) >> ELSE << >>)
         \o (IF Includes(d, << "r", "e", "a", "d", "a", "b", "i", "l", "i", "t", "y" >>) \/ Includes(d, << "m", "a", "i", "n", "t", "a", "i", "n", "a", "b", "i", "l", "i", "t", "y" >>)
             THEN << Str(<< "r", "e", "a", "d", "a", "b", "i", "l", "i", "t", "y" >>) >> ELSE << >>)
         \o (IF Includes(d, << "s", "e", "c", "u", "r", "i", "t", "y" >>) THEN << Str(<< "s", "e", "c", "u", "r", "i", "t", "y" >>) >> ELSE << >>)
    IN  Array(IF Len(found) > 0 THEN found ELSE << Str(<< "p", "e", "r", "f", "o", "r", "m", "a", "n", "c", "e" >>), Str(<< "r", "e", "a", "d", "a", "b", "i", "l", "i", "t", "y" >>) >>)

\* CodeExecutionAgent.resolveActionDependencies, for the parameters of action i
Code_resolveAction(action, i) ==
    [action EXCEPT !.params =
        [key \in DOMAIN action.params |->
            LET v == action.params[key] IN
            IF i >= 1 /\ v.kind = "string"
            THEN IF PreviousResultProperty(v.text) # << >>
                 THEN Reference(PreviousIndex(i), PreviousResultProperty(v.text))
                 ELSE IF v.text = PreviousResult
                 THEN Reference(PreviousIndex(i), << >>)
                 ELSE v
            ELSE v]]

Code_resolveActionDependencies(list) ==
    [p \in 1..Len(list) |-> Code_resolveAction(list[p], p - 1)]

\* CodeExecutionAgent.analyzeStepForActions: the list `actions` it builds from the description
Code_actions(desc, now) ==
    LET d == toLowerCase(desc)
        language == Str(Code_language(d))
        ext == Code_extension(Code_language(d))
        a1 == IF \/ Includes(d, << "c", "r", "e", "a", "t", "e" >>) \/ Includes(d, << "w", "r", "i", "t", "e" >>)
                 \/ Includes(d, << "g", "e", "n", "e", "r", "a", "t", "e" >>) \/ Includes(d, << "d", "e", "v", "e", "l", "o", "p" >>)
              THEN << [type |-> "generate_code",
                       params |-> [problem |-> Str(desc), language |-> language]] >>
              ELSE << >>
        a2 == a1 \o
              IF Includes(d, << "e", "x", "e", "c", "u", "t", "e" >>) \/ Includes(d, << "r", "u", "n" >>) \/ Includes(d, << "e", "v", "a", "l", "u", "a", "t", "e" >>)
              THEN IF Len(a1) > 0 /\ Last(a1).type = "generate_code"
                   THEN << [type |-> "execute_code",
                            params |-> [code |-> Str(<< "$", "{", "p", "r", "e", "v", "i", "o", "u", "s", "_", "r", "e", "s", "u", "l", "t", ".", "c", "o", "d", "e", "}" >>),
                                        language |-> language, args |-> Array(<< >>)]] >>
                   ELSE << [type |-> "execute_code",
                            params |-> [code |-> Str(<< "p", "r", "i", "n", "t", "(", "\"", "H", "e", "l", "l", "o", " ", "W", "o", "r", "l", "d", "\"", ")" >>),
                                        language |-> language, args |-> Array(<< >>)]] >>
              ELSE << >>
        savePath == Str(<< "/", "t", "m", "p", "/", "m", "a", "n", "u", "s", "-", "s", "a", "n", "d", "b", "o", "x", "/", "c", "o", "d", "e", "/", "s", "c", "r", "i", "p", "t", "_" >> \o now \o << "." >> \o ext)
        a3 == a2 \o
              IF \/ Includes(d, << "s", "a", "v", "e" >>) \/ Includes(d, << "w", "r", "i", "t", "e", " ", "t", "o", " ", "f", "i", "l", "e" >>)
                 \/ Includes(d, << "c", "r", "e", "a", "t", "e", " ", "f", "i", "l", "e" >>)
              THEN IF Len(a2) > 0
                   THEN IF Last(a2).type = "generate_code"
                        THEN << [type |-> "save_code",
                                 params |-> [code |-> Str(<< "$", "{", "p", "r", "e", "v", "i", "o", "u", "s", "_", "r", "e", "s", "u", "l", "t", ".", "c", "o", "d", "e", "}" >>),
                                             path |-> savePath, language |-> language]] >>
                        ELSE IF Last(a2).type = "execute_code"
                        THEN << [type |-> "save_code",
                                 params |-> [code |-> Last(a2).params.code,
                                             path |-> savePath, language |-> language]] >>
                        ELSE << >>
                   ELSE << [type |-> "save_code",
                            params |-> [code |-> Str(<< "#", " ", "G", "e", "n", "e", "r", "a", "t", "e", "d", " ", "c", "o", "d", "e", "\n", "p", "r", "i", "n", "t", "(", "\"", "H", "e", "l", "l", "o", " ", "W", "o", "r", "l", "d", "\"", ")" >>),
                                        path |-> savePath, language |-> language]] >>
              ELSE << >>
        a4 == a3 \o
              IF \/ Includes(d, << "l", "o", "a", "d" >>) \/ Includes(d, << "r", "e", "a", "d", " ", "f", "i", "l", "e" >>) \/ Includes(d, << "o", "p", "e", "n", " ", "f", "i", "l", "e" >>)
              THEN << [type |-> "load_code",
                       params |-> [path |-> Str(<< "/", "t", "m", "p", "/", "m", "a", "n", "u", "s", "-", "s", "a", "n", "d", "b", "o", "x", "/", "c", "o", "d", "e", "/", "s", "c", "r", "i", "p", "t", "." >> \o ext)]] >>
              ELSE << >>
        a5 == a4 \o
              IF \/ Includes(d, << "o", "p", "t", "i", "m", "i", "z", "e" >>) \/ Includes(d, << "i", "m", "p", "r", "o", "v", "e" >>)
                 \/ Includes(d, << "r", "e", "f", "a", "c", "t", "o", "r" >>) \/ Includes(d, << "c", "l", "e", "a", "n" >>)
              THEN IF Len(a4) > 0
                   THEN IF Last(a4).type \in {"load_code", "generate_code"}
                        THEN << [type |-> "optimize_code",
                                 params |-> [code |-> Str(<< "$", "{", "p", "r", "e", "v", "i", "o", "u", "s", "_", "r", "e", "s", "u", "l", "t", ".", "c", "o", "d", "e", " ", "|", "|", " ", "p", "r", "e", "v", "i", "o", "u", "s", "_", "r", "e", "s", "u", "l", "t", "}" >>),
                                             language |-> language,
                                             criteria |-> Code_criteria(d)]] >>
                        ELSE << >>
                   ELSE << [type |-> "optimize_code",
                            params |-> [code |-> Str(<< "#", " ", "C", "o", "d", "e", " ", "t", "o", " ", "o", "p", "t", "i", "m", "i", "z", "e", "\n", "p", "r", "i", "n", "t", "(", "\"", "H", "e", "l", "l", "o", " ", "W", "o", "r", "l", "d", "\"", ")" >>),
                                        language |-> language,
                                        criteria |-> Code_criteria(d)]] >>
              ELSE << >>
        a6 == a5 \o
              IF \/ Includes(d, << "e", "x", "p", "l", "a", "i", "n" >>) \/ Includes(d, << "u", "n", "d", "e", "r", "s", "t", "a", "n", "d" >>)
                 \/ Includes(d, << "d", "o", "c", "u", "m", "e", "n", "t" >>) \/ Includes(d, << "c", "o", "m", "m", "e", "n", "t" >>)
              THEN IF Len(a5) > 0
                   THEN IF Last(a5).type \in {"load_code", "generate_code", "optimize_code"}
                        THEN << [type |-> "explain_code",
                                 params |-> [code |-> Str(<< "$", "{", "p", "r", "e", "v", "i", "o", "u", "s", "_", "r", "e", "s", "u", "l", "t", ".", "c", "o", "d", "e", " ", "|", "|", " ", "p", "r", "e", "v", "i", "o", "u", "s", "_", "r", "e", "s", "u", "l", "t", "}" >>),
                                             language |-> language]] >>
                        ELSE << >>
                   ELSE << [type |-> "explain_code",
                            params |-> [code |-> Str(<< "#", " ", "C", "o", "d", "e", " ", "t", "o", " ", "e", "x", "p", "l", "a", "i", "n", "\n", "p", "r", "i", "n", "t", "(", "\"", "H", "e", "l", "l", "o", " ", "W", "o", "r", "l", "d", "\"", ")" >>),
                                        language |-> language]] >>
              ELSE << >>
        a7 == IF Len(a6) = 0
              THEN << [type |-> "generate_code",
                       params |-> [problem |-> Str(desc), language |-> language]],
                      [type |-> "execute_code",
                       params |-> [code |-> Str(<< "$", "{", "p", "r", "e", "v", "i", "o", "u", "s", "_", "r", "e", "s", "u", "l", "t", ".", "c", "o", "d", "e", "}" >>),
                                   language |-> language, args |-> Array(<< >>)]] >>
              ELSE a6
    IN  a7

\* CodeExecutionAgent.analyzeStepForActions: return this.resolveActionDependencies(actions)
Code_analyzeStepForActions(desc, now) ==
    Code_resolveActionDependencies(Code_actions(desc, now))

(***************************************************************************)
(* DocumentProcessingAgent: decomposer and dependency resolver.            *)
(***************************************************************************)
Files == << "/", "t", "m", "p", "/", "m", "a", "n", "u", "s", "-", "s", "a", "n", "d", "b", "o", "x", "/", "f", "i", "l", "e", "s", "/" >>

\* The << format, extension >> the read, create and update branches pick
Document_format(d) ==
    IF Includes(d, << "p", "d", "f" >>) THEN << << "p", "d", "f" >>, << "p", "d", "f" >> >>
    ELSE IF Includes(d, << "d", "o", "c", "x" >>) \/ Includes(d, << "w", "o", "r", "d" >>) THEN << << "d", "o", "c", "x" >>, << "d", "o", "c", "x" >> >>
    ELSE IF Includes(d, << "x", "l", "s", "x" >>) \/ Includes(d, << "e", "x", "c", "e", "l" >>) THEN << << "x", "l", "s", "x" >>, << "x", "l", "s", "x" >> >>
    ELSE IF Includes(d, << "c", "s", "v" >>) THEN << << "c", "s", "v" >>, << "c", "s", "v" >> >>
    ELSE IF Includes(d, << "m", "a", "r", "k", "d", "o", "w", "n" >>) \/ Includes(d, << "m", "d" >>) THEN << << "m", "a", "r", "k", "d", "o", "w", "n" >>, << "m", "d" >> >>
    ELSE IF Includes(d, << "h", "t", "m", "l" >>) THEN << << "h", "t", "m", "l" >>, << "h", "t", "m", "l" >> >>
    ELSE << << "t", "e", "x", "t" >>, << "t", "x", "t" >> >>

\* The << format, extension >> the merge branch picks
Document_mergeFormat(d) ==
    IF Includes(d, << "p", "d", "f" >>) THEN << << "p", "d", "f" >>, << "p", "d", "f" >> >>
    ELSE IF Includes(d, << "d", "o", "c", "x" >>) \/ Includes(d, << "w", "o", "r", "d" >>) THEN << << "d", "o", "c", "x" >>, << "d", "o", "c", "x" >> >>
    ELSE IF Includes(d, << "m", "a", "r", "k", "d", "o", "w", "n" >>) \/ Includes(d, << "m", "d" >>) THEN << << "m", "a", "r", "k", "d", "o", "w", "n" >>, << "m", "d" >> >>
    ELSE << << "t", "e", "x", "t" >>, << "t", "x", "t" >> >>

\* The << format, extension >> the extract branch picks
Document_extractFormat(d) ==
    IF Includes(d, << "p", "d", "f" >>) THEN << << "p", "d", "f" >>, << "p", "d", "f" >> >>
    ELSE IF Includes(d, << "d", "o", "c", "x" >>) \/ Includes(d, << "w", "o", "r", "d" >>) THEN << << "d", "o", "c", "x" >>, << "d", "o", "c", "x" >> >>
    ELSE IF Includes(d, << "x", "l", "s", "x" >>) \/ Includes(d, << "e", "x", "c", "e", "l" >>) THEN << << "x", "l", "s", "x" >>, << "x", "l", "s", "x" >> >>
    ELSE << << "t", "e", "x", "t" >>, << "t", "x", "t" >> >>

\* The parameters of the convert branch
Document_convert(d) ==
    IF Includes(d, << "m", "a", "r", "k", "d", "o", "w", "n", " ", "t", "o", " ", "h", "t", "m", "l" >>) \/ Includes(d, << "m", "d", " ", "t", "o", " ", "h", "t", "m", "l" >>)
    THEN [inputPath |-> Str(Files \o << "d", "o", "c", "u", "m", "e", "n", "t", ".", "m", "d" >>),
          outputPath |-> Str(Files \o << "c", "o", "n", "v", "e", "r", "t", "e", "d", ".", "h", "t", "m", "l" >>),
          fromFormat |-> Str(<< "m", "a", "r", "k", "d", "o", "w", "n" >>), toFormat |-> Str(<< "h", "t", "m", "l" >>)]
    ELSE IF Includes(d, << "d", "o", "c", "x", " ", "t", "o", " ", "p", "d", "f" >>) \/ Includes(d, << "w", "o", "r", "d", " ", "t", "o", " ", "p", "d", "f" >>)
    THEN [inputPath |-> Str(Files \o << "d", "o", "c", "u", "m", "e", "n", "t", ".", "d", "o", "c", "x" >>),
          outputPath |-> Str(Files \o << "c", "o", "n", "v", "e", "r", "t", "e", "d", ".", "p", "d", "f" >>),
          fromFormat |-> Str(<< "d", "o", "c", "x" >>), toFormat |-> Str(<< "p", "d", "f" >>)]
    ELSE IF Includes(d, << "c", "s", "v", " ", "t", "o", " ", "e", "x", "c", "e", "l" >>) \/ Includes(d, << "c", "s", "v", " ", "t", "o", " ", "x", "l", "s", "x" >>)
    THEN [inputPath |-> Str(Files \o << "d", "o", "c", "u", "m", "e", "n", "t", ".", "c", "s", "v" >>),
          outputPath |-> Str(Files \o << "c", "o", "n", "v", "e", "r", "t", "e", "d", ".", "x", "l", "s", "x" >>),
          fromFormat |-> Str(<< "c", "s", "v" >>), toFormat |-> Str(<< "x", "l", "s", "x" >>)]
    ELSE [inputPath |-> Str(Files \o << "d", "o", "c", "u", "m", "e", "n", "t", ".", "t", "x", "t" >>),
          outputPath |-> Str(Files \o << "c", "o", "n", "v", "e", "r", "t", "e", "d", ".", "p", "d", "f" >>),
          fromFormat |-> Str(<< "t", "e", "x", "t" >>), toFormat |-> Str(<< "p", "d", "f" >>)]

\* Faulty variant of Document_resolveAction: every string parameter is taken for a sentinel
Document_resolveAction_AnyString(action, i) ==
    [action EXCEPT !.params =
        [key \in DOMAIN action.params |->
            LET v == action.params[key] IN
            IF i >= 1 /\ v.kind = "string"
            THEN Reference(PreviousIndex(i), << >>)
            ELSE v]]

\* DocumentProcessingAgent.resolveActionDependencies, for the parameters of action i
Document_resolveAction(action, i) ==
    [action EXCEPT !.params =
        [key \in DOMAIN action.params |->
            LET v == action.params[key] IN
            IF i >= 1 /\ v.kind = "string" /\ v.text = PreviousResult
            THEN Reference(PreviousIndex(i), << >>)
            ELSE v]]

Document_resolveActionDependencies(list) ==
    [p \in 1..Len(list) |-> Document_resolveAction(list[p], p - 1)]

\* DocumentProcessingAgent.analyzeStepForActions: the list `actions` it builds from the description
Document_actions(desc) ==
    LET d == toLowerCase(desc)
        f == Document_format(d)
        m == Document_mergeFormat(d)
        x == Document_extractFormat(d)
        a1 == IF \/ Includes(d, << "r", "e", "a", "d" >>) \/ Includes(d, << "o", "p", "e", "n" >>)
                 \/ Includes(d, << "l", "o", "a", "d" >>) \/ Includes(d, << "i", "m", "p", "o", "r", "t" >>)
              THEN << [type |-> "read_document",
                       params |-> [path |-> Str(Files \o << "d", "o", "c", "u", "m", "e", "n", "t", "." >> \o f[2]),
                                   format |-> Str(f[1])]] >>
              ELSE << >>
        a2 == a1 \o
              IF \/ Includes(d, << "c", "r", "e", "a", "t", "e" >>) \/ Includes(d, << "w", "r", "i", "t", "e" >>)
                 \/ Includes(d, << "g", "e", "n", "e", "r", "a", "t", "e" >>) \/ Includes(d, << "n", "e", "w" >>)
              THEN << [type |-> "create_document",
                       params |-> [path |-> Str(Files \o << "o", "u", "t", "p", "u", "t", "." >> \o f[2]),
                                   format |-> Str(f[1]),
                                   content |-> Str(PreviousResult)]] >>
              ELSE << >>
        a3 == a2 \o
              IF \/ Includes(d, << "u", "p", "d", "a", "t", "e" >>) \/ Includes(d, << "m", "o", "d", "i", "f", "y" >>)
                 \/ Includes(d, << "e", "d", "i", "t" >>) \/ Includes(d, << "c", "h", "a", "n", "g", "e" >>)
              THEN << [type |-> "update_document",
                       params |-> [path |-> Str(Files \o << "d", "o", "c", "u", "m", "e", "n", "t", "." >> \o f[2]),
                                   format |-> Str(f[1]),
                                   changes |-> Str(PreviousResult)]] >>
              ELSE << >>
        a4 == a3 \o
              IF \/ Includes(d, << "m", "e", "r", "g", "e" >>) \/ Includes(d, << "c", "o", "m", "b", "i", "n", "e" >>)
                 \/ Includes(d, << "c", "o", "n", "c", "a", "t", "e", "n", "a", "t", "e" >>) \/ Includes(d, << "j", "o", "i", "n" >>)
              THEN << [type |-> "merge_documents",
                       params |-> [paths |-> Array(<< Str(Files \o << "d", "o", "c", "u", "m", "e", "n", "t", "1", "." >> \o m[2]),
                                                      Str(Files \o << "d", "o", "c", "u", "m", "e", "n", "t", "2", "." >> \o m[2]) >>),
                                   outputPath |-> Str(Files \o << "m", "e", "r", "g", "e", "d", "." >> \o m[2]),
                                   format |-> Str(m[1])]] >>
              ELSE << >>
        a5 == a4 \o
              IF \/ Includes(d, << "e", "x", "t", "r", "a", "c", "t" >>) \/ Includes(d, << "p", "u", "l", "l" >>)
                 \/ Includes(d, << "f", "i", "n", "d" >>) \/ Includes(d, << "s", "e", "a", "r", "c", "h" >>)
              THEN << [type |-> "extract_content",
                       params |-> [path |-> Str(Files \o << "d", "o", "c", "u", "m", "e", "n", "t", "." >> \o x[2]),
                                   format |-> Str(x[1]),
                                   query |-> Str(<< >>)]] >>
              ELSE << >>
        a6 == a5 \o
              IF \/ Includes(d, << "c", "o", "n", "v", "e", "r", "t" >>) \/ Includes(d, << "t", "r", "a", "n", "s", "f", "o", "r", "m" >>)
                 \/ Includes(d, << "c", "h", "a", "n", "g", "e", " ", "f", "o", "r", "m", "a", "t" >>)
              THEN << [type |-> "convert_document", params |-> Document_convert(d)] >>
              ELSE << >>
        a7 == IF Len(a6) = 0
              THEN << [type |-> "read_document",
                       params |-> [path |-> Str(Files \o << "d", "o", "c", "u", "m", "e", "n", "t", ".", "t", "x", "t" >>),
                                   format |-> Str(<< "t", "e", "x", "t" >>)]],
                      [type |-> "create_document",
                       params |-> [path |-> Str(Files \o << "o", "u", "t", "p", "u", "t", ".", "t", "x", "t" >>),
                                   format |-> Str(<< "t", "e", "x", "t" >>),
                                   content |-> Str(PreviousResult)]] >>
              ELSE a6
    IN  a7

\* DocumentProcessingAgent.analyzeStepForActions: return this.resolveActionDependencies(actions)
Document_analyzeStepForActions(desc) ==
    Document_resolveActionDependencies(Document_actions(desc))

(***************************************************************************)
(* DataAnalysisAgent: decomposer and dependency resolver.                  *)
(***************************************************************************)
\* The strings of `names` whose keywords occur in d, as an array; `fallback` when none does
Data_selected(d, table, fallback) ==
    LET pick[k \in 0..Len(table)] ==
            IF k = 0 THEN << >>
            ELSE pick[k - 1] \o (IF IncludesAny(d, table[k][1])
                                 THEN << Str(table[k][2]) >> ELSE << >>)
    IN  Array(IF Len(pick[Len(table)]) > 0 THEN pick[Len(table)] ELSE << Str(fallback) >>)

Data_operations(d) ==
    Data_selected(d, << << {<< "m", "i", "s", "s", "i", "n", "g" >>}, << "h", "a", "n", "d", "l", "e", "_", "m", "i", "s", "s", "i", "n", "g", "_", "v", "a", "l", "u", "e", "s" >> >>,
                        << {<< "d", "u", "p", "l", "i", "c", "a", "t", "e" >>}, << "r", "e", "m", "o", "v", "e", "_", "d", "u", "p", "l", "i", "c", "a", "t", "e", "s" >> >>,
                        << {<< "n", "o", "r", "m", "a", "l", "i", "z", "e" >>, << "s", "c", "a", "l", "e" >>}, << "n", "o", "r", "m", "a", "l", "i", "z", "e", "_", "d", "a", "t", "a" >> >>,
                        << {<< "o", "u", "t", "l", "i", "e", "r" >>}, << "h", "a", "n", "d", "l", "e", "_", "o", "u", "t", "l", "i", "e", "r", "s" >> >> >>,
                  << "b", "a", "s", "i", "c", "_", "c", "l", "e", "a", "n", "i", "n", "g" >>)

Data_analysis(d) ==
    Data_selected(d, << << {<< "d", "e", "s", "c", "r", "i", "p", "t", "i", "v", "e" >>, << "s", "u", "m", "m", "a", "r", "y" >>}, << "d", "e", "s", "c", "r", "i", "p", "t", "i", "v", "e", "_", "s", "t", "a", "t", "i", "s", "t", "i", "c", "s" >> >>,
                        << {<< "c", "o", "r", "r", "e", "l", "a", "t", "i", "o", "n" >>}, << "c", "o", "r", "r", "e", "l", "a", "t", "i", "o", "n", "_", "a", "n", "a", "l", "y", "s", "i", "s" >> >>,
                        << {<< "r", "e", "g", "r", "e", "s", "s", "i", "o", "n" >>}, << "r", "e", "g", "r", "e", "s", "s", "i", "o", "n", "_", "a", "n", "a", "l", "y", "s", "i", "s" >> >>,
                        << {<< "c", "l", "u", "s", "t", "e", "r" >>}, << "c", "l", "u", "s", "t", "e", "r", "i", "n", "g" >> >> >>,
                  << "d", "e", "s", "c", "r", "i", "p", "t", "i", "v", "e", "_", "s", "t", "a", "t", "i", "s", "t", "i", "c", "s" >>)

Data_visualization(d) ==
    Data_selected(d, << << {<< "s", "c", "a", "t", "t", "e", "r" >>}, << "s", "c", "a", "t", "t", "e", "r", "_", "p", "l", "o", "t" >> >>,
                        << {<< "b", "a", "r" >>}, << "b", "a", "r", "_", "c", "h", "a", "r", "t" >> >>,
                        << {<< "l", "i", "n", "e" >>}, << "l", "i", "n", "e", "_", "c", "h", "a", "r", "t" >> >>,
                        << {<< "h", "i", "s", "t", "o", "g", "r", "a", "m" >>}, << "h", "i", "s", "t", "o", "g", "r", "a", "m" >> >>,
                        << {<< "h", "e", "a", "t", "m", "a", "p" >>}, << "h", "e", "a", "t", "m", "a", "p" >> >> >>,
                  << "a", "u", "t", "o", "_", "v", "i", "s", "u", "a", "l", "i", "z", "e" >>)

\* Faulty variant of Data_analysesBefore: every earlier action counts as an analysis
Data_analysesBefore_All(list, i) == 0..(i - 1)

\* The indices j < i of the analyze_data and visualize_data actions
Data_analysesBefore(list, i) ==
    { j \in 0..(i - 1) : list[j + 1].type \in {"analyze_data", "visualize_data"} }

\* References to the actions at the given indices, in ascending order
RECURSIVE ReferencesTo(_)
ReferencesTo(indices) ==
    IF indices = {} THEN << >>
    ELSE LET j == CHOOSE k \in indices : \A o \in indices : k <= o
         IN  << Reference(j, << >>) >> \o ReferencesTo(indices \ {j})

\* DataAnalysisAgent.resolveActionDependencies, for the parameters of action i
Data_resolveAction(list, i) ==
    LET action == list[i + 1] IN
    [action EXCEPT !.params =
        [key \in DOMAIN action.params |->
            LET v == action.params[key] IN
            IF i >= 1 /\ v.kind = "string" /\ v.text = PreviousResult
            THEN Reference(PreviousIndex(i), << >>)
            ELSE IF /\ i >= 1 /\ action.type = "generate_report" /\ key = "analyses"
                    /\ v.kind = "array" /\ Len(v.items) = 0
            THEN Array(ReferencesTo(Data_analysesBefore(list, i)))
            ELSE v]]

Data_resolveActionDependencies(list) ==
    [p \in 1..Len(list) |-> Data_resolveAction(list, p - 1)]

\* DataAnalysisAgent.analyzeStepForActions: the list `actions` it builds from the description
Data_actions(desc) ==
    LET d == toLowerCase(desc)
        a1 == IF \/ Includes(d, << "l", "o", "a", "d" >>) \/ Includes(d, << "r", "e", "a", "d" >>) \/ Includes(d, << "i", "m", "p", "o", "r", "t" >>)
                 \/ Includes(d, << "c", "s", "v" >>) \/ Includes(d, << "e", "x", "c", "e", "l" >>) \/ Includes(d, << "d", "a", "t", "a" >>)
              THEN << [type |-> "load_data",
                       params |->
                           IF Includes(d, << "c", "s", "v" >>)
                           THEN [source |-> Str(Files \o << "d", "a", "t", "a", ".", "c", "s", "v" >>), format |-> Str(<< "c", "s", "v" >>)]
                           ELSE IF Includes(d, << "e", "x", "c", "e", "l" >>) \/ Includes(d, << "x", "l", "s", "x" >>)
                           THEN [source |-> Str(Files \o << "d", "a", "t", "a", ".", "x", "l", "s", "x" >>), format |-> Str(<< "e", "x", "c", "e", "l" >>)]
                           ELSE IF Includes(d, << "j", "s", "o", "n" >>)
                           THEN [source |-> Str(Files \o << "d", "a", "t", "a", ".", "j", "s", "o", "n" >>), format |-> Str(<< "j", "s", "o", "n" >>)]
                           ELSE [source |-> Str(Files \o << "d", "a", "t", "a", ".", "c", "s", "v" >>), format |-> Str(<< "c", "s", "v" >>)]] >>
              ELSE << >>
        a2 == a1 \o
              IF \/ Includes(d, << "c", "l", "e", "a", "n" >>) \/ Includes(d, << "p", "r", "e", "p", "r", "o", "c", "e", "s", "s" >>) \/ Includes(d, << "p", "r", "e", "p", "a", "r", "e" >>)
                 \/ Includes(d, << "m", "i", "s", "s", "i", "n", "g" >>) \/ Includes(d, << "f", "i", "l", "t", "e", "r" >>)
              THEN << [type |-> "clean_data",
                       params |-> [operations |-> Data_operations(d),
                                   data |-> Str(PreviousResult)]] >>
              ELSE << >>
        a3 == a2 \o
              IF \/ Includes(d, << "a", "n", "a", "l", "y", "z", "e" >>) \/ Includes(d, << "a", "n", "a", "l", "y", "s", "i", "s" >>)
                 \/ Includes(d, << "s", "t", "a", "t", "i", "s", "t", "i", "c", "s" >>) \/ Includes(d, << "s", "t", "a", "t", "i", "s", "t", "i", "c", "a", "l" >>)
                 \/ Includes(d, << "c", "o", "r", "r", "e", "l", "a", "t", "i", "o", "n" >>) \/ Includes(d, << "r", "e", "g", "r", "e", "s", "s", "i", "o", "n" >>)
              THEN << [type |-> "analyze_data",
                       params |-> [analysis |-> Data_analysis(d),
                                   data |-> Str(PreviousResult)]] >>
              ELSE << >>
        a4 == a3 \o
              IF \/ Includes(d, << "v", "i", "s", "u", "a", "l", "i", "z", "e" >>) \/ Includes(d, << "v", "i", "s", "u", "a", "l", "i", "z", "a", "t", "i", "o", "n" >>)
                 \/ Includes(d, << "c", "h", "a", "r", "t" >>) \/ Includes(d, << "g", "r", "a", "p", "h" >>) \/ Includes(d, << "p", "l", "o", "t" >>)
              THEN << [type |-> "visualize_data",
                       params |-> [visualization |-> Data_visualization(d),
                                   data |-> Str(PreviousResult)]] >>
              ELSE << >>
        a5 == a4 \o
              IF \/ Includes(d, << "r", "e", "p", "o", "r", "t" >>) \/ Includes(d, << "s", "u", "m", "m", "a", "r", "y" >>)
                 \/ Includes(d, << "d", "o", "c", "u", "m", "e", "n", "t" >>) \/ Includes(d, << "g", "e", "n", "e", "r", "a", "t", "e" >>)
              THEN << [type |-> "generate_report",
                       params |-> [format |-> Str(IF Includes(d, << "h", "t", "m", "l" >>) THEN << "h", "t", "m", "l" >>
                                                  ELSE IF Includes(d, << "j", "s", "o", "n" >>) THEN << "j", "s", "o", "n" >>
                                                  ELSE << "m", "a", "r", "k", "d", "o", "w", "n" >>),
                                   data |-> Str(PreviousResult),
                                   analyses |-> Array(<< >>)]] >>
              ELSE << >>
        a6 == IF Len(a5) = 0
              THEN << [type |-> "load_data",
                       params |-> [source |-> Str(Files \o << "d", "a", "t", "a", ".", "c", "s", "v" >>), format |-> Str(<< "c", "s", "v" >>)]],
                      [type |-> "clean_data",
                       params |-> [operations |-> Array(<< Str(<< "b", "a", "s", "i", "c", "_", "c", "l", "e", "a", "n", "i", "n", "g" >>) >>),
                                   data |-> Str(PreviousResult)]],
                      [type |-> "analyze_data",
                       params |-> [analysis |-> Array(<< Str(<< "d", "e", "s", "c", "r", "i", "p", "t", "i", "v", "e", "_", "s", "t", "a", "t", "i", "s", "t", "i", "c", "s" >>) >>),
                                   data |-> Str(PreviousResult)]],
                      [type |-> "visualize_data",
                       params |-> [visualization |-> Array(<< Str(<< "a", "u", "t", "o", "_", "v", "i", "s", "u", "a", "l", "i", "z", "e" >>) >>),
                                   data |-> Str(PreviousResult)]],
                      [type |-> "generate_report",
                       params |-> [format |-> Str(<< "m", "a", "r", "k", "d", "o", "w", "n" >>),
                                   data |-> Str(PreviousResult),
                                   analyses |-> Array(<< >>)]] >>
              ELSE a5
    IN  a6

\* DataAnalysisAgent.analyzeStepForActions: return this.resolveActionDependencies(actions)
Data_analyzeStepForActions(desc) ==
    Data_resolveActionDependencies(Data_actions(desc))

(***************************************************************************)
(* WebBrowsingAgent: decomposer.                                           *)
(***************************************************************************)
\* t occurs in s at position p
StartsAt(s, p, t) == p + Len(t) - 1 <= Len(s) /\ SubSeq(s, p, p + Len(t) - 1) = t

\* Length of the longest run of characters outside set, read from position from
RECURSIVE RunLenNot(_, _, _)
RunLenNot(s, from, set) ==
    IF from > Len(s) \/ s[from] \in set THEN 0
    ELSE 1 + RunLenNot(s, from + 1, set)

\* description.match(/(https?:\/\/[^\s]+)/g) || [], scanning from position from
RECURSIVE Web_urls(_, _)
Web_urls(d, from) ==
    IF from > Len(d) THEN << >>
    ELSE LET scheme == IF StartsAt(d, from, << "h", "t", "t", "p", ":", "/", "/" >>) THEN 7
                       ELSE IF StartsAt(d, from, << "h", "t", "t", "p", "s", ":", "/", "/" >>) THEN 8
                       ELSE 0
             n == RunLenNot(d, from + scheme, Whitespace)
         IN  IF scheme > 0 /\ n >= 1
             THEN << SubSeq(d, from, from + scheme + n - 1) >> \o Web_urls(d, from + scheme + n)
             ELSE Web_urls(d, from + 1)

Quotes == {"\"", "'"}

\* /search\s+(?:for\s+)?["']?([^"']+)["']?/i tried with `search` at position p: the
\* position where group 1 starts, 0 when the regex does not match there.  The
\* alternatives are tried in the regex's own order: all blanks, `for` and its
\* blanks, a quote; then the same giving one blank back to the group; then
\* without `for`.
Web_searchGroupStart(d, p) ==
    LET q == p + 6
        w == RunLen(d, q, Whitespace)
        r == q + w
        for == StartsAt(d, r, << "f", "o", "r" >>)
        w2 == IF for THEN RunLen(d, r + 3, Whitespace) ELSE 0
        r2 == r + 3 + w2
        group(s) == IF s <= Len(d) /\ d[s] \in Quotes
                    THEN IF s + 1 <= Len(d) /\ d[s + 1] \notin Quotes THEN s + 1 ELSE 0
                    ELSE IF s <= Len(d) THEN s ELSE 0
    IN  IF ~StartsAt(d, p, << "s", "e", "a", "r", "c", "h" >>) \/ w = 0 THEN 0
        ELSE IF for /\ w2 >= 1 /\ group(r2) > 0 THEN group(r2)
        ELSE IF for /\ w2 >= 2 THEN r2 - 1
        ELSE IF group(r) > 0 THEN group(r)
        ELSE IF w >= 2 THEN r - 1
        ELSE 0

\* WebBrowsingAgent.extractSearchQuery: << >> stands for null and for the empty string,
\* which the caller's `if (searchTerms)` treats alike
Web_extractSearchQuery(d) ==
    LET hits == { p \in 1..Len(d) : Web_searchGroupStart(d, p) > 0 } IN
    IF hits = {} THEN << >>
    ELSE LET s == Web_searchGroupStart(d, CHOOSE h \in hits : \A o \in hits : h <= o)
         IN  Trim(SubSeq(d, s, s + RunLenNot(d, s, Quotes) - 1))

stopwords == { << "t", "h", "e" >>, << "a", "n", "d" >>, << "a" >>, << "a", "n" >>, << "i", "n" >>, << "o", "n" >>, << "a", "t" >>, << "t", "o" >>, << "f", "o", "r" >>, << "w", "i", "t", "h" >>, << "a", "b", "o", "u", "t" >> }

\* description.replace(/[^\w\s]/g, ' ').split(/\s+/).filter(...): the words kept
RECURSIVE Web_topicWords(_, _)
Web_topicWords(d, from) ==
    IF from > Len(d) THEN << >>
    ELSE LET n == RunLen(d, from, IdentChars)
             word == SubSeq(d, from, from + n - 1)
         IN  IF n = 0 THEN Web_topicWords(d, from + 1)
             ELSE (IF toLowerCase(word) \notin stopwords /\ n > 2 THEN << word >> ELSE << >>)
                  \o Web_topicWords(d, from + n)

\* Array.prototype.join(' ')
RECURSIVE JoinWords(_)
JoinWords(words) ==
    IF words = << >> THEN << >>
    ELSE IF Len(words) = 1 THEN words[1]
    ELSE words[1] \o << " " >> \o JoinWords(Tail(words))

\* WebBrowsingAgent.extractTopic: << >> stands for null
Web_extractTopic(d) ==
    LET words == Web_topicWords(d, 1) IN
    JoinWords(SubSeq(words, 1, IF Len(words) < 5 THEN Len(words) ELSE 5))

\* WebBrowsingAgent.analyzeStepToActions
Web_analyzeStepToActions(desc) ==
    LET d == toLowerCase(desc)
        urls == Web_urls(d, 1)
        a1 == IF Len(urls) > 0
              THEN [k \in 1..Len(urls) |-> [type |-> "navigate", params |-> [url |-> Str(urls[k])]]]
              ELSE IF Includes(d, << "s", "e", "a", "r", "c", "h" >>) /\ Web_extractSearchQuery(d) # << >>
              THEN << [type |-> "search", params |-> [query |-> Str(Web_extractSearchQuery(d))]] >>
              ELSE << >>
        a2 == a1 \o
              IF Includes(d, << "e", "x", "t", "r", "a", "c", "t" >>) \/ Includes(d, << "g", "e", "t" >>) \/ Includes(d, << "s", "c", "r", "a", "p", "e" >>)
              THEN << [type |-> "extract", params |-> [selector |-> Str(<< "b", "o", "d", "y" >>)]] >>
              ELSE << >>
    IN  IF Len(a2) > 0 THEN a2
        ELSE IF Web_extractTopic(d) # << >>
        THEN << [type |-> "search", params |-> [query |-> Str(Web_extractTopic(d))]] >>
        ELSE << [type |-> "screenshot", params |-> [none |-> Array(<< >>)]] >>

(***************************************************************************)
(* GeneralPurposeAgent: decomposer.  A response of the text-generation     *)
(* collaborator is described by what the two parsing attempts make of it.  *)
(***************************************************************************)
\* Action lists a response can hold.  The tool of an action is whatever the response
\* says: "calculator" is a tool executeAction does not know, "undefined" stands for
\* an action object without a `tool` member.
AnalyzerLists ==
    { << >>,
      << [type |-> "compute", tool |-> "calculator", params |-> [query |-> Str(<< "x" >>)]],
         [type |-> "search", tool |-> "browser", params |-> [query |-> Str(<< "x" >>)]] >>,
      << [type |-> "search", tool |-> "browser", params |-> [query |-> Str(<< "x" >>)]] >>,
      << [type |-> "search", tool |-> "browser", params |-> [query |-> Str(<< "x" >>)]],
         [type |-> "execute_code", tool |-> "code",
          params |-> [language |-> Str(<< "p", "y", "t", "h", "o", "n" >>), code |-> Str(<< "1" >>)]] >>,
      << [type |-> "search", tool |-> "browser", params |-> [query |-> Str(<< "x" >>)]],
         [type |-> "search", tool |-> "undefined", params |-> [query |-> Str(<< "x" >>)]],
         [type |-> "execute_code", tool |-> "code",
          params |-> [language |-> Str(<< "p", "y", "t", "h", "o", "n" >>), code |-> Str(<< "1" >>)]] >> }

\* thrown: getLLMResponse rejects.  json: what JSON.parse(response) gives ("array",
\* another "value", or "invalid" when it throws).  bracketed: what JSON.parse gives
\* for the span /\[[\s\S]*\]/ matches ("none" when nothing matches).  list: the array.
AnalyzerResponses ==
    { [thrown |-> TRUE, json |-> "invalid", bracketed |-> "none", list |-> << >>] }
    \cup { [thrown |-> FALSE, json |-> "array", bracketed |-> "array", list |-> l] :
             l \in AnalyzerLists }
    \cup { [thrown |-> FALSE, json |-> "invalid", bracketed |-> "array", list |-> l] :
             l \in AnalyzerLists }
    \cup { [thrown |-> FALSE, json |-> j, bracketed |-> b, list |-> << >>] :
             j \in {"value", "invalid"}, b \in {"invalid", "none"} }

\* description.replace(/"/g, '\\"')
EscapeQuotes(s) ==
    LET esc[k \in 0..Len(s)] ==
            IF k = 0 THEN << >>
            ELSE esc[k - 1] \o (IF s[k] = "\"" THEN << "\\", "\"" >> ELSE << s[k] >>)
    IN  esc[Len(s)]

\* GeneralPurposeAgent.analyzeStepForActions on the response r
General_analyzeStepForActions(desc, r) ==
    IF r.thrown
    THEN << [type |-> "execute_code", tool |-> "code",
             params |-> [language |-> Str(<< "p", "y", "t", "h", "o", "n" >>),
                         code |-> Str(<< "p", "r", "i", "n", "t", "(", "\"", "P", "r", "o", "c", "e", "s", "s", "i", "n", "g", " ", "t", "a", "s", "k", ":", " " >> \o EscapeQuotes(desc)
                                      \o << "\"", ")" >>)]] >>
    ELSE IF r.json = "array" THEN r.list
    ELSE IF r.bracketed = "array" THEN r.list
    ELSE << [type |-> "execute_code", tool |-> "code",
             params |-> [language |-> Str(<< "p", "y", "t", "h", "o", "n" >>),
                         code |-> Str(<< "\n", "#", " ", "S", "i", "m", "p", "l", "e", " ", "s", "c", "r", "i", "p", "t", " ", "t", "o", " ", "h", "a", "n", "d", "l", "e", " ", "t", "h", "e", " ", "t", "a", "s", "k", "\n", "i", "m", "p", "o", "r", "t", " ", "j", "s", "o", "n", "\n", "\n", "d", "e", "f", " ", "p", "r", "o", "c", "e", "s", "s", "_", "t", "a", "s", "k", "(", ")", ":", "\n", " ", " ", " ", " ", "t", "a", "s", "k", "_", "d", "e", "s", "c", "r", "i", "p", "t", "i", "o", "n", " ", "=", " ", "\"", "\"", "\"" >>
                                      \o desc
                                      \o << "\"", "\"", "\"", "\n", " ", " ", " ", " ", "p", "r", "i", "n", "t", "(", "f", "\"", "P", "r", "o", "c", "e", "s", "s", "i", "n", "g", " ", "t", "a", "s", "k", ":", " ", "{", "t", "a", "s", "k", "_", "d", "e", "s", "c", "r", "i", "p", "t", "i", "o", "n", "}", "\"", ")", "\n" >>)]] >>

(***************************************************************************)
(* executeStep of the five handlers.                                       *)
(***************************************************************************)
\* The tools a handler initializes, in the order of its initialize() calls
AgentTools(type) ==
    CASE type = "WebBrowsingAgent" -> << "browser" >>
      [] type = "DataAnalysisAgent" -> << "code", "filesystem" >>
      [] type = "DocumentProcessingAgent" -> << "filesystem", "code" >>
      [] type = "CodeExecutionAgent" -> << "code", "filesystem" >>
      [] OTHER -> << "code", "filesystem", "browser", "shell" >>

\* The decomposer runs before the tools are initialized (WebBrowsingAgent only)
DecomposesFirst(type) == type = "WebBrowsingAgent"

\* The toolName argument of recordToolUsageStart
ToolNameOf(type, action) ==
    CASE type = "WebBrowsingAgent" -> "browser"
      [] type = "DataAnalysisAgent" -> "code"
      [] type = "DocumentProcessingAgent" -> "filesystem"
      [] type = "CodeExecutionAgent" -> "code"
      [] OTHER -> action.tool

\* The action types the switch of the handler's loop has a case for
KnownTypes(type) ==
    CASE type = "WebBrowsingAgent" ->
             { "navigate", "search", "extract", "click", "fill", "screenshot" }
      [] type = "DataAnalysisAgent" ->
             { "load_data", "clean_data", "analyze_data", "visualize_data", "generate_report" }
      [] type = "DocumentProcessingAgent" ->
             { "read_document", "create_document", "update_document", "merge_documents",
               "extract_content", "convert_document" }
      [] type = "CodeExecutionAgent" ->
             { "generate_code", "execute_code", "save_code", "load_code", "optimize_code",
               "explain_code" }
      [] OTHER -> { }

\* The switch reaches an operation: a known action type, or for the general purpose
\* handler a known tool (executeAction)
Dispatches(type, action) ==
    IF type = "GeneralPurposeAgent"
    THEN action.tool \in { "browser", "code", "filesystem", "shell" }
    ELSE action.type \in KnownTypes(type)

\* The tools the operation of the action calls
OpTools(type, action) ==
    CASE type = "WebBrowsingAgent" -> { "browser" }
      [] type = "DataAnalysisAgent" -> { "code" }
      [] type = "DocumentProcessingAgent" ->
             IF action.type = "read_document" THEN { "filesystem" }
             ELSE { "filesystem", "code" }
      [] type = "CodeExecutionAgent" ->
             IF action.type = "execute_code" THEN { "code" }
             ELSE IF action.type \in { "save_code", "load_code" } THEN { "filesystem" }
             ELSE { }
      [] OTHER -> { action.tool }

\* The operation cannot return normally: executeCode and saveCode of the code
\* handler hand `code` to Buffer.from, which throws a TypeError for an object
MustFail(type, action) ==
    /\ type = "CodeExecutionAgent"
    /\ action.type \in { "execute_code", "save_code" }
    /\ action.params.code.kind # "string"

\* The arguments the loop passes to the operation: the action's own fields
Arguments(action) == action.params

\* Faulty variant of NewToolUsage: the row is created with its end timestamp set
NewToolUsage_Ended(index, toolName) ==
    [action |-> index, toolName |-> toolName, ended |-> 1, success |-> FALSE]

\* prisma.toolUsage.create of recordToolUsageStart: the new row
NewToolUsage(index, toolName) ==
    [action |-> index, toolName |-> toolName, ended |-> 0, success |-> FALSE]

\* Faulty variant of recordToolUsageEnd: a failure is not recorded
recordToolUsageEnd_FailureDropped(rows, k, success) ==
    IF success THEN [rows EXCEPT ![k].ended = @ + 1, ![k].success = success] ELSE rows

\* recordToolUsageEnd: prisma.toolUsage.update({ endedAt, success, ... }) of row k
recordToolUsageEnd(rows, k, success) ==
    [rows EXCEPT ![k].ended = @ + 1, ![k].success = success]

\* Faulty variant of CatchCleanup: the catch block releases nothing
CatchCleanup_None(type, live) == live

\* The cleanup calls of the outer catch block: every tool of the handler
CatchCleanup(type, live) ==
    live \ { AgentTools(type)[k] : k \in 1..Len(AgentTools(type)) }

\* The cleanup calls after the loop: every tool of the handler
Cleanup(type, live) ==
    live \ { AgentTools(type)[k] : k \in 1..Len(AgentTools(type)) }

\* A step is handed to executeTaskStep.
InitStep ==
    /\ InitTasks
    /\ InitNoPlan
    /\ InitNoFile
    /\ auditUp = TRUE
    /\ description \in StepDescriptions
    /\ agentType = "none"
    /\ apc = "select"
    /\ toolIdx = 0
    /\ actions = << >>
    /\ ai = 0
    /\ results = << >>
    /\ toolUsage = << >>
    /\ toolLive = {}
    /\ invoked = << >>
    /\ stepError = "none"
    /\ stepResult = "none"
    /\ output = [kind |-> "none"]
    /\ unresolved = << >>

\* executeTaskStep: analyzeStepForAgentSelection, getAgent, then agent.executeStep
AgSelect ==
    /\ apc = "select"
    /\ agentType' = getAgent(analyzeStepForAgentSelection(description))
    /\ apc' = IF DecomposesFirst(agentType') THEN "decompose" ELSE "initialize"
    /\ toolIdx' = 1
    /\ UNCHANGED << taskVars, planVars, fsVars >>
    /\ UNCHANGED << description, actions, ai, results, toolUsage, toolLive, invoked,
                    stepError, stepResult, output,
                    unresolved >>

\* await tool.initialize() of the next tool returns
AgInitialize ==
    /\ apc = "initialize"
    /\ toolLive' = toolLive \cup { AgentTools(agentType)[toolIdx] }
    /\ IF toolIdx < Len(AgentTools(agentType))
       THEN toolIdx' = toolIdx + 1 /\ apc' = "initialize"
       ELSE toolIdx' = 0 /\ apc' = IF DecomposesFirst(agentType) THEN "start" ELSE "decompose"
    /\ UNCHANGED << taskVars, planVars, fsVars >>
    /\ UNCHANGED << description, agentType, actions, ai, results, toolUsage, invoked,
                    stepError, stepResult, output,
                    unresolved >>

\* await tool.initialize() of the next tool throws; what it acquired before stays held
AgInitializeRaises ==
    /\ apc = "initialize"
    /\ toolLive' = toolLive \cup { AgentTools(agentType)[toolIdx] }
    /\ stepError' = "initialize"
    /\ apc' = "catch"
    /\ UNCHANGED << taskVars, planVars, fsVars >>
    /\ UNCHANGED << description, agentType, toolIdx, actions, ai, results, toolUsage,
                    invoked, stepResult, output,
                    unresolved >>

\* The action list of the handler's decomposer before resolveActionDependencies;
\* the web and general purpose handlers have no resolver
Unresolved(type, desc, r, now) ==
    CASE type = "WebBrowsingAgent" -> Web_analyzeStepToActions(desc)
      [] type = "DataAnalysisAgent" -> Data_actions(desc)
      [] type = "DocumentProcessingAgent" -> Document_actions(desc)
      [] type = "CodeExecutionAgent" -> Code_actions(desc, now)
      [] OTHER -> General_analyzeStepForActions(desc, r)

\* The action list of the handler's decomposer, dependencies resolved; r is the
\* response of the text-generation collaborator and now the reading of the clock
Decompose(type, desc, r, now) ==
    CASE type = "WebBrowsingAgent" -> Web_analyzeStepToActions(desc)
      [] type = "DataAnalysisAgent" -> Data_analyzeStepForActions(desc)
      [] type = "DocumentProcessingAgent" -> Document_analyzeStepForActions(desc)
      [] type = "CodeExecutionAgent" -> Code_analyzeStepForActions(desc, now)
      [] OTHER -> General_analyzeStepForActions(desc, r)

\* const actions = await this.analyzeStepForActions(step)
AgDecompose ==
    /\ apc = "decompose"
    /\ \E r \in AnalyzerResponses, now \in Clock :
          /\ unresolved' = Unresolved(agentType, description, r, now)
          /\ actions' = Decompose(agentType, description, r, now)
    /\ ai' = 0
    /\ apc' = IF DecomposesFirst(agentType) THEN "initialize" ELSE "start"
    /\ UNCHANGED << taskVars, planVars, fsVars >>
    /\ UNCHANGED << description, agentType, toolIdx, results, toolUsage, toolLive, invoked,
                    stepError, stepResult, output >>

\* Head of the loop: recordToolUsageStart of the next action.  Prisma rejects a
\* create without toolName (the column is required), which throws out of the loop.
AgStart ==
    /\ apc = "start"
    /\ ai < Len(actions)
    /\ IF ToolNameOf(agentType, actions[ai + 1]) = "undefined"
       THEN /\ stepError' = "recordToolUsageStart"
            /\ apc' = "catch"
            /\ UNCHANGED toolUsage
       ELSE /\ toolUsage' = Append(toolUsage,
                                   NewToolUsage(ai, ToolNameOf(agentType, actions[ai + 1])))
            /\ apc' = "invoke"
            /\ UNCHANGED stepError
    /\ UNCHANGED << taskVars, planVars, fsVars >>
    /\ UNCHANGED << description, agentType, toolIdx, actions, ai, results, toolLive, invoked,
                    stepResult, output,
                    unresolved >>

\* The record of one call of an operation
Invocation(type, index, action, live) ==
    [index |-> index, type |-> action.type, args |-> Arguments(action),
     tools |-> OpTools(type, action), live |-> live]

\* The operation of the action is called and returns its result
AgInvoke ==
    /\ apc = "invoke"
    /\ Dispatches(agentType, actions[ai + 1])
    /\ ~MustFail(agentType, actions[ai + 1])
    /\ invoked' = Append(invoked, Invocation(agentType, ai, actions[ai + 1], toolLive))
    /\ apc' = "recordSuccess"
    /\ UNCHANGED << taskVars, planVars, fsVars >>
    /\ UNCHANGED << description, agentType, toolIdx, actions, ai, results, toolUsage,
                    toolLive, stepError, stepResult, output,
                    unresolved >>

\* The operation of the action is called and throws
AgInvokeRaises ==
    /\ apc = "invoke"
    /\ Dispatches(agentType, actions[ai + 1])
    /\ invoked' = Append(invoked, Invocation(agentType, ai, actions[ai + 1], toolLive))
    /\ apc' = "recordFailure"
    /\ UNCHANGED << taskVars, planVars, fsVars >>
    /\ UNCHANGED << description, agentType, toolIdx, actions, ai, results, toolUsage,
                    toolLive, stepError, stepResult, output,
                    unresolved >>

\* The default branch of the switch: throw new Error(`Unknown ...`)
AgUnknown ==
    /\ apc = "invoke"
    /\ ~Dispatches(agentType, actions[ai + 1])
    /\ apc' = "recordFailure"
    /\ UNCHANGED << taskVars, planVars, fsVars >>
    /\ UNCHANGED << description, agentType, toolIdx, actions, ai, results, toolUsage,
                    toolLive, invoked, stepError, stepResult, output,
                    unresolved >>

\* recordToolUsageEnd(toolUsageId, true, result); results.push(result)
AgRecordSuccess ==
    /\ apc = "recordSuccess"
    /\ toolUsage' = recordToolUsageEnd(toolUsage, Len(toolUsage), TRUE)
    /\ results' = Append(results, [action |-> ai])
    /\ ai' = ai + 1
    /\ apc' = "start"
    /\ UNCHANGED << taskVars, planVars, fsVars >>
    /\ UNCHANGED << description, agentType, toolIdx, actions, toolLive, invoked, stepError,
                    stepResult, output,
                    unresolved >>

\* The inner catch: recordToolUsageEnd(toolUsageId, false, null, message); logWarning
AgRecordFailure ==
    /\ apc = "recordFailure"
    /\ toolUsage' = recordToolUsageEnd(toolUsage, Len(toolUsage), FALSE)
    /\ ai' = ai + 1
    /\ apc' = "start"
    /\ UNCHANGED << taskVars, planVars, fsVars >>
    /\ UNCHANGED << description, agentType, toolIdx, actions, results, toolLive, invoked,
                    stepError, stepResult, output,
                    unresolved >>

\* GeneralPurposeAgent.processResults: the single result itself, or an object that
\* holds the results beside their count and a generated summary
processResults(res) ==
    IF Len(res) = 1 THEN [shape |-> "result", items |-> res]
    ELSE [shape |-> "combined", actions_executed |-> Len(res), items |-> res]

\* `output` of the success return: `results` in the four specialized handlers; in
\* the general purpose handler `this.processResults(results)`, an async method
\* called without await, so the value returned is its promise
Output(type, res) ==
    IF type = "GeneralPurposeAgent" THEN [kind |-> "promise", of |-> processResults(res)]
    ELSE [kind |-> "array", items |-> res]

\* After the loop: the cleanup calls, then return { success: true, output }
AgCleanup ==
    /\ apc = "start"
    /\ ai = Len(actions)
    /\ toolLive' = Cleanup(agentType, toolLive)
    /\ stepResult' = "success"
    /\ output' = Output(agentType, results)
    /\ apc' = "returned"
    /\ UNCHANGED << taskVars, planVars, fsVars >>
    /\ UNCHANGED << description, agentType, toolIdx, actions, ai, results, toolUsage,
                    invoked, stepError,
                    unresolved >>

\* The outer catch: the cleanup calls, logError, then return { success: false, ... }
AgCatch ==
    /\ apc = "catch"
    /\ toolLive' = CatchCleanup(agentType, toolLive)
    /\ stepResult' = "failure"
    /\ output' = [kind |-> "null"]
    /\ apc' = "returned"
    /\ UNCHANGED << taskVars, planVars, fsVars >>
    /\ UNCHANGED << description, agentType, toolIdx, actions, ai, results, toolUsage,
                    invoked, stepError,
                    unresolved >>

NextAgent ==
    \/ AgSelect
    \/ AgInitialize
    \/ AgInitializeRaises
    \/ AgDecompose
    \/ AgStart
    \/ AgInvoke
    \/ AgInvokeRaises
    \/ AgUnknown
    \/ AgRecordSuccess
    \/ AgRecordFailure
    \/ AgCleanup
    \/ AgCatch

\* One step run by its handler, from executeTaskStep to the return of executeStep.
SpecAgent == InitStep /\ [][NextAgent]_vars

\* The same under the scheduling of an async function: an await of the action loop
\* (the operation, recordToolUsageEnd) settles and the function resumes.
SpecAgentFair ==
    /\ SpecAgent
    /\ WF_vars(AgInvoke \/ AgInvokeRaises \/ AgUnknown)
    /\ WF_vars(AgRecordSuccess)
    /\ WF_vars(AgRecordFailure)

(***************************************************************************)
(* executeTaskStep with the handler it calls.                              *)
(***************************************************************************)
\* executeTaskStep: `agent.executeStep(step)` is called with the stored step, whose
\* description is one of the samples
ExCallAgent(e) ==
    /\ pc[e] = "executeStep"
    /\ apc = "idle"
    /\ description' \in StepDescriptions
    /\ agentType' = "none"
    /\ apc' = "select"
    /\ toolIdx' = 0
    /\ actions' = << >>
    /\ ai' = 0
    /\ results' = << >>
    /\ toolUsage' = << >>
    /\ invoked' = << >>
    /\ stepError' = "none"
    /\ stepResult' = "none"
    /\ output' = [kind |-> "none"]
    /\ unresolved' = << >>
    /\ UNCHANGED << taskVars, planVars, fsVars, toolLive >>

\* executeTaskStep: `const result = await agent.executeStep(step)` and what follows
\* it: the next statement, whatever result.success is
AgentReturns(e, result) ==
    /\ pc' = [pc EXCEPT ![e] = "stepComplete"]
    /\ err' = err

\* agent.executeStep(step) has returned to executeTaskStep
ExAgentReturns(e) ==
    /\ pc[e] = "executeStep"
    /\ apc = "returned"
    /\ AgentReturns(e, stepResult)
    /\ apc' = "idle"
    /\ UNCHANGED << planVars, fsVars >>
    /\ UNCHANGED << description, agentType, toolIdx, actions, ai, results, toolUsage,
                    toolLive, invoked, stepError, stepResult, output, unresolved >>
    /\ UNCHANGED << apiLog, errorLog, auditUp, deletePc, deleted >>
    /\ UNCHANGED << taskStatus, taskCompletedAt, taskSteps, execPc, planLen, idx, snap,
                    cancelPc, closePc, everFailed, cancelPos >>

\* The executor's actions around the call of the handler.  The handlers return a
\* result in every case and no step row is removed here, so the catch of
\* executeTaskStep is not entered.
ExecutorAround(e) ==
    \/ ExFindTask(e) \/ ExSetPlanning(e) \/ ExCreatePlan(e) \/ ExCreatePlanRaises(e)
    \/ ExDeleteSteps(e) \/ ExCreateStep(e) \/ ExSetInProgress(e) \/ ExFindSteps(e)
    \/ ExStepStart(e) \/ ExStepComplete(e)
    \/ ExCheckStatus(e) \/ ExSetResolved(e) \/ ExHandleError(e)

\* One task is executed, every step by the handler the executor selects for it.
NextLinked ==
    \/ ExecFind("e1") \/ ExecUpdate("e1") \/ ExecutorAround("e1")
    \/ ExCallAgent("e1") \/ NextAgent \/ ExAgentReturns("e1")

SpecLinked == Init /\ [][NextLinked]_vars

(***************************************************************************)
(* Properties.                                                             *)
(***************************************************************************)
TerminalStates == {"CLOSED", "FAILED"}

\* C1: once a task's status is CLOSED or FAILED it never changes to another
\* status, whatever the interleaving of the executor with cancel, close and
\* execute requests.
C1_TerminalStatusIsFinal ==
    [][\A t \in Tasks :
          taskStatus[t] \in TerminalStates => taskStatus'[t] = taskStatus[t]]_vars

TaskEdges ==
    { << "PENDING", "PLANNING" >>, << "PLANNING", "IN_PROGRESS" >>,
      << "IN_PROGRESS", "RESOLVED" >>, << "RESOLVED", "CLOSED" >>,
      << "PLANNING", "FAILED" >>, << "IN_PROGRESS", "FAILED" >> }

\* C2: every change of a task's status follows an edge of the task state
\* machine, and RESOLVED -> CLOSED is taken by the close request only.
C2_TaskStatusFollowsEdges ==
    [][\A t \in Tasks :
          taskStatus'[t] # taskStatus[t] =>
              /\ << taskStatus[t], taskStatus'[t] >> \in TaskEdges
              /\ taskStatus'[t] = "CLOSED" => closePc[t] = "update" /\ closePc'[t] = "idle"]_vars

StepEdges ==
    { << "PENDING", "IN_PROGRESS" >>, << "IN_PROGRESS", "COMPLETED" >>,
      << "IN_PROGRESS", "FAILED" >> }

\* C3: every change of a step's status is PENDING -> IN_PROGRESS,
\* IN_PROGRESS -> COMPLETED or IN_PROGRESS -> FAILED; a FAILED step never
\* changes status again.
C3_StepStatusFollowsEdges ==
    [][\A s \in taskSteps : \A n \in taskSteps' :
          (s.id = n.id /\ s.status # n.status) => << s.status, n.status >> \in StepEdges]_vars

\* C4: fail-fast: when step k of an execution has been FAILED (by an exception
\* or by cancellation), no step of that execution with a larger stepNumber
\* leaves PENDING.
C4_FailFast ==
    \A s \in taskSteps : \A n \in taskSteps :
        (s.id \in everFailed /\ n.id[1] = s.id[1] /\ n.stepNumber > s.stepNumber)
            => n.status = "PENDING"

\* C5: when the handler's executeStep raised for step k, the executor has set
\* step k FAILED with an end timestamp and, once it is done, the task FAILED;
\* every step before k is COMPLETED and every step after k is PENDING.
C5_StepExceptionFailsTask ==
    \A e \in Execs :
        (err[e] = "agent" /\ pc[e] \in {"handleError", "done"}) =>
            /\ pc[e] = "done" => taskStatus[TaskOf(e)] = "FAILED"
            /\ Cardinality(StepsOf(TaskOf(e))) = planLen[e]
            /\ \A s \in StepsOf(TaskOf(e)) :
                  /\ s.stepNumber < idx[e] => s.status = "COMPLETED"
                  /\ s.stepNumber = idx[e] => s.status = "FAILED" /\ s.completedAt
                  /\ s.stepNumber > idx[e] => s.status = "PENDING"

\* C5 witness: step 2 of a 3-step plan raised and the executor is done.
C5_Witness ==
    /\ pc["e1"] = "done" /\ err["e1"] = "agent" /\ planLen["e1"] = 3 /\ idx["e1"] = 2
    /\ \E s \in StepsOf("t1") : s.stepNumber = 3 /\ s.status = "PENDING"

\* C6: when a cancellation sets an IN_PROGRESS task FAILED while step k is
\* executing, step k still runs to its end (the executor records its outcome),
\* the executor starts no further step, and every step after k stays PENDING.
C6_CancelDuringStep ==
    \A e \in Execs :
        LET t == TaskOf(e)
            k == cancelPos[e][2]
        IN  cancelPos[e][1] = "executeStep" =>
                /\ idx[e] = k
                /\ \A s \in StepsOf(t) : s.stepNumber > k => s.status = "PENDING"
                /\ (pc[e] \in {"checkStatus", "setResolved"} \/ (pc[e] = "done" /\ err[e] = "none"))
                       => \A s \in StepsOf(t) : s.stepNumber = k => s.status = "COMPLETED"

\* C6 witness: cancelled during step 2 of 3, step 2 finished, executor done, step 3 PENDING.
C6_Witness ==
    /\ cancelPos["e1"] = << "executeStep", 2 >>
    /\ pc["e1"] = "done" /\ planLen["e1"] = 3
    /\ \E s \in StepsOf("t1") : s.stepNumber = 2 /\ s.status = "COMPLETED"
    /\ \E s \in StepsOf("t1") : s.stepNumber = 3 /\ s.status = "PENDING"

\* C7: at every step boundary, the one before the first step included, the
\* executor does not start the step when the task's status is FAILED.
C7_NoStepStartsWhenFailed ==
    [][\A e \in Execs :
          (pc[e] \in {"findSteps", "checkStatus"} /\ taskStatus[TaskOf(e)] = "FAILED")
              => pc'[e] # "stepStart"]_vars

\* C8: every store write of a cancel request for task t sets task t FAILED or
\* sets the IN_PROGRESS steps of t FAILED; it creates and deletes no row and
\* changes no other step and no other task.
C8_CancelFrame ==
    [][\A t \in Tasks :
          cancelPc'[t] # cancelPc[t] =>
              /\ \A o \in Tasks \ {t} : taskStatus'[o] = taskStatus[o]
              /\ cancelPc[t] = "updateTask" => taskStatus'[t] = "FAILED"
              /\ cancelPc[t] # "updateTask" => taskStatus'[t] = taskStatus[t]
              /\ { s.id : s \in taskSteps' } = { s.id : s \in taskSteps }
              /\ \A s \in taskSteps : \A n \in taskSteps' :
                    s.id = n.id =>
                        IF cancelPc[t] = "updateSteps" /\ s.taskId = t /\ s.status = "IN_PROGRESS"
                        THEN n.status = "FAILED" /\ n.taskId = t /\ n.stepNumber = s.stepNumber
                        ELSE n = s]_vars

\* C8 witness: the cancel of t1 has forced its running step FAILED (its executor
\* is still inside the handler) while t1 holds a PENDING step and t2 a running one.
C8_Witness ==
    /\ pc["e1"] = "executeStep" /\ cancelPc["t1"] = "idle"
    /\ \E s \in StepsOf("t1") : s.status = "FAILED"
    /\ \E s \in StepsOf("t1") : s.status = "PENDING"
    /\ \E s \in StepsOf("t2") : s.status = "IN_PROGRESS"

\* C9: when storePlanSteps has stored a plan of N steps, the task's rows are
\* exactly N rows created by this execution, numbered 1..N in plan order, all
\* PENDING.
C9_StoredPlan ==
    \A e \in Execs :
        pc[e] = "setInProgress" =>
            /\ Cardinality(StepsOf(TaskOf(e))) = planLen[e]
            /\ { s.stepNumber : s \in StepsOf(TaskOf(e)) } = 1..planLen[e]
            /\ \A s \in StepsOf(TaskOf(e)) :
                  /\ s.status = "PENDING"
                  /\ s.id[1] = e
                  /\ s.stepNumber = s.id[2] + 1

\* C9 witness: a 3-step plan has just been stored in place of an earlier 2-step
\* plan of the same task.
C9_Witness ==
    /\ pc["e3"] = "setInProgress" /\ planLen["e3"] = 3 /\ planLen["e1"] = 2
    /\ pc["e1"] = "done" /\ err["e1"] = "none"
    /\ Cardinality(StepsOf("t1")) = 3

\* C10: the plan createPlan returns is never empty.
C10_PlanNeverEmpty ==
    \A e \in Execs : pc[e] = "deleteSteps" => planLen[e] >= 1


(***************************************************************************)
(* Handler selection.                                                      *)
(***************************************************************************)
\* C11: the handler executeTaskStep invokes for a step is the first handler in
\* registration order, the fallback excluded, whose canHandleStep accepts the step,
\* and the fallback exactly when none of them accepts.
C11_FirstMatchSelected ==
    agentType # "none" => agentType = selectAgentForStep(description)


(***************************************************************************)
(* Dependency resolution.                                                  *)
(***************************************************************************)
\* The References a parameter value holds, itself or as an element of an array
ReferencesIn(value) ==
    IF value.kind = "reference" THEN { value }
    ELSE IF value.kind = "array"
    THEN { value.items[k] : k \in { n \in 1..Len(value.items) : value.items[n].kind = "reference" } }
    ELSE { }

\* C12: every Reference a dependency resolver puts into the action at index i, the
\* analysis references of a report action included, has a source index strictly
\* less than i.
C12_ReferencesPointBack ==
    \A i \in 0..(Len(actions) - 1) :
        \A key \in DOMAIN actions[i + 1].params :
            \A r \in ReferencesIn(actions[i + 1].params[key]) :
                r.resultFrom >= 0 /\ r.resultFrom < i

\* A resolved list whose report action holds a Reference of its own and a list of them.
C12_Witness ==
    \E i \in 0..(Len(actions) - 1) :
        /\ actions[i + 1].type = "generate_report"
        /\ actions[i + 1].params.data.kind = "reference"
        /\ Len(actions[i + 1].params.analyses.items) >= 1

\* A string parameter value is a well-formed sentinel
IsSentinel(value) ==
    /\ value.kind = "string"
    /\ \/ value.text = PreviousResult
       \/ /\ PreviousResultProperty(value.text) # << >>
          /\ Len(value.text) = Len(PreviousResult) + 1 + Len(PreviousResultProperty(value.text))

\* C13: after dependency resolution no parameter of any action, at index 0 as at
\* any other index, still holds a well-formed string sentinel.
C13_NoSentinelLeft ==
    \A i \in 0..(Len(actions) - 1) :
        \A key \in DOMAIN actions[i + 1].params :
            ~IsSentinel(actions[i + 1].params[key])


(***************************************************************************)
(* The action loop.                                                        *)
(***************************************************************************)
\* C14: the value the loop passes to an operation for a Reference parameter is the
\* referenced earlier result (or its property), never the Reference object; for
\* [generate_code, execute_code] the code passed is a text, the one action 0 produced.
C14_ReferenceSubstituted ==
    \A k \in 1..Len(invoked) :
        \A key \in DOMAIN invoked[k].args :
            ReferencesIn(invoked[k].args[key]) = { }

\* The ToolUsage rows of the action at index i
RowsOf(i) == { k \in 1..Len(toolUsage) : toolUsage[k].action = i }

\* The action at index i holds a Reference to an action that failed and left no result
RefersToFailed(i) ==
    \E key \in DOMAIN actions[i + 1].params :
        \E r \in ReferencesIn(actions[i + 1].params[key]) :
            \E k \in RowsOf(r.resultFrom) :
                toolUsage[k].ended >= 1 /\ ~toolUsage[k].success

\* C15: an action whose Reference cannot be satisfied because the referenced action
\* failed is a failed action: its operation is not invoked with the unresolved value,
\* its ToolUsage is closed with success = false, its output is not among the results,
\* and the actions after it still run.
C15_UnsatisfiedReferenceFails ==
    apc = "returned" /\ stepError = "none" =>
        \A i \in 0..(Len(actions) - 1) :
            RefersToFailed(i) =>
                /\ \A k \in 1..Len(invoked) :
                      invoked[k].index = i =>
                          \A key \in DOMAIN invoked[k].args :
                              ReferencesIn(invoked[k].args[key]) = { }
                /\ \E k \in RowsOf(i) : toolUsage[k].ended = 1 /\ ~toolUsage[k].success
                /\ \A n \in 1..Len(results) : results[n].action # i
                /\ \A j \in (i + 1)..(Len(actions) - 1) : RowsOf(j) # { }

\* C16: once the loop is reached, every action of the list is attempted, in list
\* order, whichever actions fail: the failure of one never stops a later one.
C16_EveryActionAttempted ==
    apc = "returned" /\ stepError # "initialize" =>
        /\ Len(toolUsage) = Len(actions)
        /\ \A k \in 1..Len(toolUsage) : toolUsage[k].action = k - 1

\* The ToolUsage rows without an end timestamp
OpenRows == { k \in 1..Len(toolUsage) : toolUsage[k].ended = 0 }

\* C17: a ToolUsage row is open only while its action runs and is closed once the
\* action completes, by success or by failure; none is open when executeStep
\* returns; no row is ended twice.
C17_ToolUsageClosed ==
    /\ [](\A k \in 1..Len(toolUsage) : toolUsage[k].ended <= 1)
    /\ [](OpenRows # { } =>
             /\ OpenRows = { Len(toolUsage) }
             /\ apc \in { "invoke", "recordSuccess", "recordFailure" })
    /\ [](apc = "returned" => OpenRows = { })
    /\ (OpenRows # { }) ~> (OpenRows = { })

\* executeStep returned with one row closed as a success and one closed as a failure.
C17_Witness ==
    /\ apc = "returned"
    /\ \E k \in 1..Len(toolUsage) : toolUsage[k].ended = 1 /\ toolUsage[k].success
    /\ \E k \in 1..Len(toolUsage) : toolUsage[k].ended = 1 /\ ~toolUsage[k].success

\* C18: the decomposer of every handler returns at least one action, for every
\* description and every response of the text-generation collaborator.
C18_AtLeastOneAction ==
    [][AgDecompose => Len(actions') >= 1]_vars

\* C19: when executeStep returns, on every exit path, no tool is left initialized;
\* every operation was called while its tools were initialized and not cleaned up.
C19_ToolLifecycle ==
    /\ apc = "returned" => toolLive = { }
    /\ \A k \in 1..Len(invoked) : invoked[k].tools \subseteq invoked[k].live

\* executeStep returned through the outer catch, from the action loop, after an
\* operation had used a tool.
C19_Witness ==
    /\ apc = "returned"
    /\ stepResult = "failure"
    /\ stepError = "recordToolUsageStart"
    /\ \E k \in 1..Len(invoked) : invoked[k].tools # { }
    /\ toolLive = { }


(***************************************************************************)
(* Refused execute requests.                                               *)
(***************************************************************************)
\* The task of the request exists, belongs to the requesting user and is PENDING
Eligible(e) ==
    /\ TaskOf(e) \in Tasks
    /\ TaskUser(TaskOf(e)) = UserOf(e)
    /\ taskStatus[TaskOf(e)] = "PENDING"

\* C20: an execute request for a task that does not exist, belongs to another user
\* or is not PENDING is refused at once and changes nothing: the status, the steps
\* and the log rows stay as they are, and no executor is started, then or later.
C20_RefusedExecuteMutatesNothing ==
    [][\A e \in Execs :
          /\ execPc[e] = "idle" /\ execPc'[e] # "idle" /\ ~Eligible(e) =>
                /\ execPc'[e] \in ErrorResponses
                /\ UNCHANGED << taskStatus, taskCompletedAt, taskSteps, apiLog, pc >>
          /\ execPc[e] \in ErrorResponses =>
                /\ execPc'[e] = execPc[e]
                /\ pc'[e] = pc[e]
                /\ (e \in apiLog') = (e \in apiLog)]_vars

\* All three refusals have happened: 400 for the task already executing, 404, 403.
C20_Witness ==
    /\ execPc["e3"] = "400"
    /\ execPc["e4"] = "404"
    /\ execPc["e5"] = "403"


(***************************************************************************)
(* The URL scenario.                                                       *)
(***************************************************************************)
\* C21: the step "Summarize URL https://example.com" is dispatched to the web
\* handler, which decomposes it into exactly one navigate action with that url,
\* and the step is reported as a success.
C21_UrlStepGoesToWebHandler ==
    description = SummarizeUrl =>
        /\ agentType \in { "none", "WebBrowsingAgent" }
        /\ apc \in { "start", "invoke", "recordSuccess", "recordFailure", "returned" } =>
              /\ Len(actions) = 1
              /\ actions[1].type = "navigate"
              /\ actions[1].params.url.text = SubSeq(toLowerCase(SummarizeUrl), 15, 33)
        /\ apc = "returned" => stepResult = "success"


(***************************************************************************)
(* Sequential steps.                                                       *)
(***************************************************************************)
\* The rows of task t that are IN_PROGRESS
InProgress(rows, t) == { s \in rows : s.taskId = t /\ s.status = "IN_PROGRESS" }

\* C22: at no time are two steps of one task IN_PROGRESS, and a step becomes
\* IN_PROGRESS only when every step of its task with a smaller stepNumber is COMPLETED.
C22_StepsSequential ==
    /\ [](\A t \in Tasks : Cardinality(InProgress(taskSteps, t)) <= 1)
    /\ [][\A t \in Tasks :
             \A s \in InProgress(taskSteps', t) \ InProgress(taskSteps, t) :
                 \A o \in taskSteps' :
                     o.taskId = t /\ o.stepNumber < s.stepNumber => o.status = "COMPLETED"]_vars


\* C23: whenever an executor has failed its task because a step's handler raised, an
\* ERROR row with the error is in the audit log against that step from the moment
\* the step is FAILED, and another against the task (no step) from the moment the
\* task is FAILED.
C23_StepFailureLogged ==
    \A e \in Execs :
        err[e] = "agent" =>
            /\ pc[e] \in { "handleError", "done" } =>
                  ErrorRow(TaskOf(e), snap[e][idx[e]], "agent") \in errorLog
            /\ pc[e] = "done" => ErrorRow(TaskOf(e), << >>, "agent") \in errorLog

C23_Witness ==
    \E e \in Execs :
        /\ pc[e] = "done" /\ err[e] = "agent"
        /\ taskStatus[TaskOf(e)] = "FAILED"
        /\ snap[e][idx[e]] \in everFailed
        /\ Cardinality(errorLog) = 2

\* C24: whether the audit store accepts or rejects its writes changes nothing but
\* the log: at the execute route's log write, the response and the executor that
\* is started are the same with an accepted write and with a rejected one.
C24_AuditObservational ==
    \A e \in Execs :
        execPc[e] = "update" =>
            /\ RouteStart(e, TRUE).response = RouteStart(e, FALSE).response
            /\ RouteStart(e, TRUE).executor = RouteStart(e, FALSE).executor


\* C25: within one step, the ToolUsage row of an action is opened before the
\* action's operation is called, the operation is called only while that row is the
\* open one, the row is closed only after the call has returned or thrown, and the
\* next row is opened only when no row is open; at most one row is open at any
\* time, and rows are opened in the order of the action list.
C25_ToolUsageBrackets ==
    /\ [](Cardinality(OpenRows) <= 1)
    /\ [](\A j \in 1..Len(toolUsage) : \A k \in 1..Len(toolUsage) :
              j < k => toolUsage[j].action < toolUsage[k].action)
    /\ [][Len(toolUsage') > Len(toolUsage) =>
              /\ OpenRows = { }
              /\ toolUsage'[Len(toolUsage')].action = ai
              /\ \A k \in 1..Len(invoked) : invoked[k].index < ai]_vars
    /\ [][Len(invoked') > Len(invoked) =>
              /\ OpenRows = { Len(toolUsage) }
              /\ toolUsage[Len(toolUsage)].action = invoked'[Len(invoked')].index
              /\ UNCHANGED toolUsage]_vars
    /\ [][OpenRows' # OpenRows /\ Len(toolUsage') = Len(toolUsage) =>
              /\ apc \in { "recordSuccess", "recordFailure" }
              /\ OpenRows' = { }]_vars

\* The document handler has returned after two actions: each had its row opened,
\* its operation called and its row closed, one after the other.
C25_Witness ==
    /\ agentType = "DocumentProcessingAgent"
    /\ apc = "returned"
    /\ Len(toolUsage) >= 2
    /\ Len(invoked) = Len(toolUsage)
    /\ \A k \in 1..Len(toolUsage) : toolUsage[k].ended = 1 /\ invoked[k].index = k - 1


\* The outputs of the actions whose ToolUsage row was closed with success = true, in
\* the order of the rows
SuccessfulOutputs(rows) ==
    LET closed == SelectSeq(rows, LAMBDA r : r.ended = 1 /\ r.success)
    IN  [k \in 1..Len(closed) |-> [action |-> closed[k].action]]

\* C26: the output a handler returns with success is the list of the outputs of the
\* actions whose ToolUsage row was closed with success = true, in list order, and
\* nothing else; no output of a failed action is ever collected.
C26_PayloadIsSuccessfulOutputs ==
    /\ \A n \in 1..Len(results) :
          \E k \in RowsOf(results[n].action) : toolUsage[k].ended = 1 /\ toolUsage[k].success
    /\ apc = "returned" /\ stepResult = "success" =>
          /\ output.kind = "array"
          /\ output.items = SuccessfulOutputs(toolUsage)


\* C27: the decomposer is a function of the handler and the description: whatever
\* the collaborator answers and whatever the clock reads, two runs of the same
\* handler on the same description give the same action list.
C27_DecompositionDeterministic ==
    apc = "decompose" =>
        \A r1 \in AnalyzerResponses, r2 \in AnalyzerResponses :
            \A now1 \in Clock, now2 \in Clock :
                Decompose(agentType, description, r1, now1)
                    = Decompose(agentType, description, r2, now2)


\* C28 as stated: every Reference held by the action at index i has source index
\* exactly i - 1.
C28_SimpleChain ==
    \A i \in 0..(Len(actions) - 1) :
        \A key \in DOMAIN actions[i + 1].params :
            \A r \in ReferencesIn(actions[i + 1].params[key]) :
                r.resultFrom = i - 1

\* C28, amended: a Reference that stands for a parameter of the action at index i
\* has source index exactly i - 1; the References in the analyses list of a report
\* action are one for each earlier analyze_data or visualize_data action, in
\* ascending order, whatever their distance from the report.
C28_ChainExceptAnalyses ==
    \A i \in 0..(Len(actions) - 1) :
        \A key \in DOMAIN actions[i + 1].params :
            LET v == actions[i + 1].params[key] IN
            /\ v.kind = "reference" => v.resultFrom = i - 1
            /\ v.kind = "array" /\ ReferencesIn(v) # { } =>
                  /\ actions[i + 1].type = "generate_report" /\ key = "analyses"
                  /\ \A n \in 1..Len(v.items) :
                        /\ v.items[n].kind = "reference"
                        /\ v.items[n].resultFrom < i
                        /\ actions[v.items[n].resultFrom + 1].type
                               \in { "analyze_data", "visualize_data" }
                        /\ n > 1 => v.items[n - 1].resultFrom < v.items[n].resultFrom
                  /\ \A j \in 0..(i - 1) :
                        actions[j + 1].type \in { "analyze_data", "visualize_data" } =>
                            \E n \in 1..Len(v.items) : v.items[n].resultFrom = j

\* A report action at index 2 whose analyses refer to the actions 0 and 1 and whose
\* data parameter refers to action 1.
C28_Witness ==
    /\ Len(actions) = 3
    /\ actions[3].type = "generate_report"
    /\ actions[3].params.data.kind = "reference"
    /\ actions[3].params.data.resultFrom = 1
    /\ Len(actions[3].params.analyses.items) = 2
    /\ actions[3].params.analyses.items[1].resultFrom = 0


\* C29 as stated: resolution keeps the length and the order of the list, the type
\* and the parameter names of every action, and the value of every parameter that
\* is not a well-formed sentinel; what it changes becomes a Reference.
C29_ResolutionFrame ==
    /\ Len(actions) = Len(unresolved)
    /\ \A p \in 1..Len(unresolved) :
          /\ actions[p].type = unresolved[p].type
          /\ DOMAIN actions[p].params = DOMAIN unresolved[p].params
          /\ \A key \in DOMAIN unresolved[p].params :
                \/ actions[p].params[key] = unresolved[p].params[key]
                \/ /\ IsSentinel(unresolved[p].params[key])
                   /\ actions[p].params[key].kind = "reference"

\* C29, amended: as above, except that the empty `analyses` array of a report
\* action, which is no sentinel, is filled with References.
C29_ResolutionFrameExceptAnalyses ==
    /\ Len(actions) = Len(unresolved)
    /\ \A p \in 1..Len(unresolved) :
          /\ actions[p].type = unresolved[p].type
          /\ DOMAIN actions[p].params = DOMAIN unresolved[p].params
          /\ \A key \in DOMAIN unresolved[p].params :
                \/ actions[p].params[key] = unresolved[p].params[key]
                \/ /\ IsSentinel(unresolved[p].params[key])
                   /\ actions[p].params[key].kind = "reference"
                \/ /\ actions[p].type = "generate_report" /\ key = "analyses"
                   /\ unresolved[p].params[key] = Array(<< >>)
                   /\ actions[p].params[key].kind = "array"
                   /\ \A n \in 1..Len(actions[p].params[key].items) :
                         actions[p].params[key].items[n].kind = "reference"

\* A resolved list of the data handler: a sentinel became a Reference, the report's
\* empty analyses array was filled, and the literal parameters are as they were built.
C29_Witness ==
    /\ agentType = "DataAnalysisAgent"
    /\ apc = "start"
    /\ \E p \in 2..Len(actions) :
          /\ actions[p].type = "generate_report"
          /\ IsSentinel(unresolved[p].params.data)
          /\ actions[p].params.data.kind = "reference"
          /\ unresolved[p].params.analyses = Array(<< >>)
          /\ Len(actions[p].params.analyses.items) >= 1
          /\ actions[p].params.format = unresolved[p].params.format


(***************************************************************************)
(* The plan parser.                                                        *)
(***************************************************************************)
\* The positions of the lines that match the pattern of a numbered step
NumberedLines(lines) == { i \in 1..Len(lines) : StepRegexMatch(lines[i]) > 0 }

\* The text of the lines from..to that are not blank, each after a blank, trimmed
RECURSIVE Continuation(_, _, _)
Continuation(lines, from, to) ==
    IF from > to THEN << >>
    ELSE (IF Trim(lines[from]) # << >> THEN << " " >> \o Trim(lines[from]) ELSE << >>)
         \o Continuation(lines, from + 1, to)

\* The lines after the numbered line at position i and before the next numbered line
NextNumbered(lines, i) ==
    IF \E j \in NumberedLines(lines) : j > i
    THEN CHOOSE j \in NumberedLines(lines) : j > i /\ \A o \in NumberedLines(lines) : o > i => j <= o
    ELSE Len(lines) + 1

\* C30: the parser returns one step for each line that matches the numbered-step
\* pattern, in the order of the lines; the description of a step is the text of its
\* line followed by the non-blank lines up to the next numbered line, each after a
\* blank; the lines before the first numbered line appear in no step; and a line
\* that does not match never adds a step.
C30_ParserStepsAreNumberedLines ==
    /\ [](lineIdx = Len(SplitLines(llmResponse)) + 2 =>
             LET lines == SplitLines(llmResponse)
                 numbered == NumberedLines(lines)
             IN  /\ Len(planSteps) = Cardinality(numbered)
                 /\ \A i \in numbered :
                       planSteps[Cardinality({ j \in numbered : j <= i })]
                           = StepDescription(lines[i])
                                 \o Continuation(lines, i + 1, NextNumbered(lines, i) - 1))
    /\ [][(/\ lineIdx \in 1..Len(SplitLines(llmResponse))
            /\ StepRegexMatch(SplitLines(llmResponse)[lineIdx]) = 0)
              => Len(planSteps') + Len(currentStep') = Len(planSteps) + Len(currentStep)]_vars

\* The parser has returned one step for the lines "a", "1. a", "- a": the first
\* line was dropped and the third appended to the step of the second.
C30_Witness ==
    /\ lineIdx = Len(SplitLines(llmResponse)) + 2
    /\ SplitLines(llmResponse) = << << "a" >>, << "1", ".", " ", "a" >>, << "-", " ", "a" >> >>
    /\ planSteps = << << "a", " ", "-", " ", "a" >> >>


(***************************************************************************)
(* Plan update.                                                            *)
(***************************************************************************)
\* C31: the step number updatePlan asks the new plan to start from is greater than
\* the 1-based number of every completed step, and is 1 when no step is completed.
C31_UpdateContinuesNumbering ==
    updatePrompt # << >> =>
        /\ \A i \in completedStepIndices : updatePrompt[1].startingFrom > i + 1
        /\ completedStepIndices = {} => updatePrompt[1].startingFrom = 1


(***************************************************************************)
(* Task-control requests against the executor.                             *)
(***************************************************************************)
\* C32: every task-control request acts on the status it checked: a cancel writes
\* FAILED only to a task that is PLANNING or IN_PROGRESS at that moment, a close
\* writes CLOSED only to a task that is RESOLVED, a delete removes only a task
\* that is CLOSED or FAILED, whatever the executor does in between.
C32_StatusCheckedIsStatusActedOn ==
    [][\A t \in Tasks :
          /\ (cancelPc[t] = "updateTask" /\ cancelPc'[t] = "updateSteps")
                => taskStatus[t] \in CancellableStates
          /\ (closePc[t] = "update" /\ closePc'[t] = "idle" /\ HasTask(t))
                => taskStatus[t] = "RESOLVED"
          /\ (t \notin deleted /\ t \in deleted')
                => taskStatus[t] \in finalStates]_vars


\* C33: a task that is RESOLVED or CLOSED has only COMPLETED steps: no stored step
\* of it is PENDING, IN_PROGRESS or FAILED, also when the step loop ended early.
C33_ResolvedMeansAllStepsCompleted ==
    \A t \in Tasks :
        (HasTask(t) /\ taskStatus[t] \in {"RESOLVED", "CLOSED"})
            => \A s \in StepsOf(t) : s.status = "COMPLETED"


\* C34: the executor marks a step COMPLETED only when the handler's executeStep
\* returned success = true for it; a result with success = false is never followed
\* by the COMPLETED write.
C34_CompletedOnlyOnSuccess ==
    [][\A e \in Execs :
          (pc[e] = "stepComplete" /\ pc'[e] = "checkStatus") => stepResult = "success"]_vars


\* C35: of the execute requests for one task at most one starts an executor: a
\* task is never run by two executor instances, so its plan is stored once and
\* one executor alone updates its steps.
C35_AtMostOneExecutionStarted ==
    \A t \in Tasks : Cardinality({ e \in Execs : TaskOf(e) = t /\ pc[e] # "idle" }) <= 1


(***************************************************************************)
(* Termination of an execution.                                            *)
(***************************************************************************)
\* The runs of SpecAudit in which every await of the execute route and of the
\* executor settles: the call returns or raises, and the function goes on.
SpecAuditFair ==
    /\ SpecAudit
    /\ \A e \in {"e1", "e2"} : WF_vars(ExecUpdate(e) \/ Executor(e))

\* C36: once an execute request has set a task PLANNING, the task eventually is
\* RESOLVED or FAILED, provided every call the route and the executor await
\* returns or raises.
C36_StartedExecutionEnds ==
    \A e \in {"e1", "e2"} :
        (execPc[e] \in {"200", "500"}) ~> (taskStatus[TaskOf(e)] \in {"RESOLVED", "FAILED"})


\* C37: a step is IN_PROGRESS only while its task is IN_PROGRESS: when the task is
\* FAILED, RESOLVED or CLOSED and its executors and its cancel request have
\* finished, none of its steps is IN_PROGRESS, and no step becomes IN_PROGRESS
\* while its task is FAILED.
C37_StepInProgressOnlyInRunningTask ==
    /\ [](\A t \in Tasks :
            (/\ taskStatus[t] \in {"FAILED", "RESOLVED", "CLOSED"}
             /\ cancelPc[t] = "idle"
             /\ \A e \in Execs : TaskOf(e) = t => pc[e] \in {"idle", "done"})
                => InProgress(taskSteps, t) = {})
    /\ [][\A t \in Tasks :
             InProgress(taskSteps', t) \ InProgress(taskSteps, t) # {}
                 => taskStatus[t] # "FAILED"]_vars


\* C38: a task is not deleted while an execution of it is in flight: after the
\* delete no executor of the task takes another step, so none reads or updates
\* the task or its steps.
C38_NoExecutorStepAfterDelete ==
    [][\A e \in Execs : TaskOf(e) \in deleted => pc'[e] = pc[e]]_vars


(***************************************************************************)
(* Independence of tasks.                                                  *)
(***************************************************************************)
\* A step of the execute route, the executor, or the cancel, close or delete
\* request of task t
ActsFor(t) ==
    \/ \E e \in Execs :
          /\ TaskOf(e) = t
          /\ execPc'[e] # execPc[e] \/ pc'[e] # pc[e] \/ idx'[e] # idx[e]
    \/ cancelPc'[t] # cancelPc[t]
    \/ closePc'[t] # closePc[t]
    \/ deletePc'[t] # deletePc[t]

\* C39: executions of different tasks are independent: a step taken for task a
\* creates, changes and deletes no Task row and no TaskStep row of another task.
C39_TasksIndependent ==
    [][\A a \in Tasks : \A b \in Tasks \ {a} :
          ActsFor(a) =>
              /\ taskStatus'[b] = taskStatus[b]
              /\ taskCompletedAt'[b] = taskCompletedAt[b]
              /\ (b \in deleted') = (b \in deleted)
              /\ { s \in taskSteps' : s.taskId = b } = { s \in taskSteps : s.taskId = b }]_vars

\* The first task has been deleted with its steps during its execution, after
\* the plan was stored, while the second task is IN_PROGRESS with its own steps.
C39_Witness ==
    /\ "t1" \in deleted /\ planLen["e1"] >= 2 /\ pc["e1"] \notin {"idle", "done"}
    /\ taskStatus["t2"] = "IN_PROGRESS"
    /\ Cardinality({ s \in taskSteps : s.taskId = "t2" }) >= 2


(***************************************************************************)
(* FileSystemTool: the virtual file system.                                *)
(***************************************************************************)
\* options.rootDirectory (the default; no caller passes another)
rootDirectory == << "/", "t", "m", "p", "/", "m", "a", "n", "u", "s", "-", "s", "a", "n", "d", "b", "o", "x", "/", "f", "i", "l", "e", "s" >>

\* options.maxFileSize
maxFileSize == 1024 * 1024 * 50

\* options.allowedExtensions
allowedExtensions ==
    { << "t", "x", "t" >>, << "j", "s", "o", "n" >>, << "c", "s", "v" >>, << "m", "d" >>, << "x", "m", "l" >>, << "h", "t", "m", "l" >>, << "c", "s", "s" >>, << "j", "s" >>, << "t", "s" >>,
      << "j", "p", "g" >>, << "j", "p", "e", "g" >>, << "p", "n", "g" >>, << "g", "i", "f" >>, << "s", "v", "g" >>, << "p", "d", "f" >>, << "d", "o", "c" >>, << "d", "o", "c", "x" >>,
      << "x", "l", "s" >>, << "x", "l", "s", "x" >>, << "z", "i", "p" >>, << "t", "a", "r" >>, << "g", "z" >>, << "p", "y" >>, << "i", "p", "y", "n", "b" >>, << "r" >> }

\* options.disallowedExtensions
disallowedExtensions ==
    { << "e", "x", "e" >>, << "d", "l", "l" >>, << "s", "h" >>, << "b", "a", "t" >>, << "c", "m", "d" >>, << "c", "o", "m" >>, << "j", "a", "r" >>, << "m", "s", "i" >>, << "a", "p", "p" >>,
      << "d", "m", "g" >>, << "s", "y", "s" >>, << "s", "o" >>, << "d", "y", "l", "i", "b" >>, << "b", "i", "n" >> }

\* String.prototype.startsWith
startsWith(s, prefix) == Len(prefix) <= Len(s) /\ SubSeq(s, 1, Len(prefix)) = prefix

\* Position of the first sep of s at or after from, Len(s) + 1 when there is none.
RECURSIVE IndexOf(_, _, _)
IndexOf(s, sep, from) ==
    IF from > Len(s) \/ s[from] = sep THEN from
    ELSE IndexOf(s, sep, from + 1)

\* String.prototype.split(sep) for a one-character separator: empty parts are kept
RECURSIVE split(_, _)
split(s, sep) ==
    LET n == IndexOf(s, sep, 1)
    IN  IF n > Len(s) THEN << s >>
        ELSE << SubSeq(s, 1, n - 1) >> \o split(SubSeq(s, n + 1, Len(s)), sep)

\* Array.prototype.join(sep); the empty array gives the empty string
RECURSIVE join(_, _)
join(parts, sep) ==
    IF parts = << >> THEN << >>
    ELSE IF Len(parts) = 1 THEN parts[1]
    ELSE parts[1] \o << sep >> \o join(Tail(parts), sep)

\* components.filter(c => c.length > 0)
RECURSIVE NonEmpty(_)
NonEmpty(parts) ==
    IF parts = << >> THEN << >>
    ELSE IF Head(parts) = << >> THEN NonEmpty(Tail(parts))
    ELSE << Head(parts) >> \o NonEmpty(Tail(parts))

\* normalizePath: the loop over the components.  '..' pops the last component
\* unless there is none or it equals the whole root directory string.
RECURSIVE ResolveComponents(_, _)
ResolveComponents(components, result) ==
    IF components = << >> THEN result
    ELSE LET c == Head(components) IN
         ResolveComponents(Tail(components),
             IF c = << "." >> THEN result
             ELSE IF c = << ".", "." >>
                  THEN IF Len(result) > 0 /\ result[Len(result)] # rootDirectory
                       THEN SubSeq(result, 1, Len(result) - 1)
                       ELSE result
                  ELSE Append(result, c))

\* FileSystemTool.normalizePath
normalizePath(path) ==
    LET p == IF startsWith(path, rootDirectory) THEN path
             ELSE rootDirectory \o << "/" >> \o path
    IN  << "/" >> \o join(ResolveComponents(NonEmpty(split(p, "/")), << >>), "/")

\* FileSystemTool.validatePath: TRUE when it returns, FALSE when it throws
validatePath(path) == startsWith(path, rootDirectory)

\* FileSystemTool.getParentDirectory
getParentDirectory(path) ==
    LET parts == split(path, "/")
        parent == join(SubSeq(parts, 1, Len(parts) - 1), "/")
    IN  IF parent = << >> THEN << "/" >> ELSE parent

\* path.split('/').pop() || ''
baseName(path) == Last(split(path, "/"))

\* FileSystemTool.getFileExtension: << >> for undefined, else << the extension >>
getFileExtension(path) ==
    LET parts == split(baseName(path), ".")
    IN  IF Len(parts) > 1 /\ Len(Last(parts)) > 0 THEN << toLowerCase(Last(parts)) >>
        ELSE << >>

\* virtualFileSystem is a Map: a sequence of entries in insertion order, one per key
has(fs, key) == \E i \in 1..Len(fs) : fs[i].path = key

get(fs, key) == fs[CHOOSE i \in 1..Len(fs) : fs[i].path = key]

\* Map.prototype.set: a present key keeps its place, a new key goes last
set(fs, key, isDirectory) ==
    IF has(fs, key)
    THEN [i \in 1..Len(fs) |-> IF fs[i].path = key
                               THEN [path |-> key, isDirectory |-> isDirectory]
                               ELSE fs[i]]
    ELSE Append(fs, [path |-> key, isDirectory |-> isDirectory])

\* Map.prototype.delete
RECURSIVE remove(_, _)
remove(fs, key) ==
    IF fs = << >> THEN << >>
    ELSE IF Head(fs).path = key THEN remove(Tail(fs), key)
    ELSE << Head(fs) >> \o remove(Tail(fs), key)

\* The outcome of a call: it threw or returned, the map it leaves, and the keys of
\* the entries it read, wrote or removed
Threw(fs) == [raised |-> TRUE, fs |-> fs, touched |-> {}]

Returned(fs, touched) == [raised |-> FALSE, fs |-> fs, touched |-> touched]

\* The keys of fs, in order, that satisfy the test of readdir: another key whose
\* parent directory is dir
RECURSIVE Children(_, _)
Children(fs, dir) ==
    IF fs = << >> THEN << >>
    ELSE IF Head(fs).path # dir /\ getParentDirectory(Head(fs).path) = dir
         THEN << Head(fs).path >> \o Children(Tail(fs), dir)
         ELSE Children(Tail(fs), dir)

Range(list) == { list[i] : i \in 1..Len(list) }

\* Faulty variant of ParentExists: the check is missing
ParentExists_Unchecked(fs, path) == TRUE

\* `this.virtualFileSystem.has(parentDir)` of writeFile, mkdir, move and copy
ParentExists(fs, path) == has(fs, getParentDirectory(path))

\* FileSystemTool.readFile
readFile(fs, path) ==
    LET normalizedPath == normalizePath(path) IN
    IF ~validatePath(normalizedPath) THEN Threw(fs)
    ELSE IF ~has(fs, normalizedPath) THEN Threw(fs)
    ELSE IF get(fs, normalizedPath).isDirectory THEN Threw(fs)
    ELSE Returned(fs, {normalizedPath})

\* FileSystemTool.writeFile; length is content.length
writeFile(fs, path, length) ==
    LET normalizedPath == normalizePath(path)
        ext == getFileExtension(normalizedPath)
    IN  IF ~validatePath(normalizedPath) THEN Threw(fs)
        ELSE IF ext # << >> /\ ext[1] \in disallowedExtensions THEN Threw(fs)
        ELSE IF ext # << >> /\ ext[1] \notin allowedExtensions THEN Threw(fs)
        ELSE IF length > maxFileSize THEN Threw(fs)
        ELSE IF ~ParentExists(fs, normalizedPath) THEN Threw(fs)
        ELSE Returned(set(fs, normalizedPath, FALSE),
                      {normalizedPath, getParentDirectory(normalizedPath)})

\* FileSystemTool.mkdir
mkdir(fs, path) ==
    LET normalizedPath == normalizePath(path) IN
    IF ~validatePath(normalizedPath) THEN Threw(fs)
    ELSE IF has(fs, normalizedPath) THEN Threw(fs)
    ELSE IF ~ParentExists(fs, normalizedPath) THEN Threw(fs)
    ELSE Returned(set(fs, normalizedPath, TRUE),
                  {normalizedPath, getParentDirectory(normalizedPath)})

\* FileSystemTool.readdir
readdir(fs, path) ==
    LET normalizedPath == normalizePath(path) IN
    IF ~validatePath(normalizedPath) THEN Threw(fs)
    ELSE IF ~has(fs, normalizedPath) THEN Threw(fs)
    ELSE IF ~get(fs, normalizedPath).isDirectory THEN Threw(fs)
    ELSE Returned(fs, {normalizedPath} \cup Range(Children(fs, normalizedPath)))

\* FileSystemTool.delete, and its loop `for (const subEntry of contents)`
RECURSIVE delete(_, _, _)
RECURSIVE deleteContents(_, _, _)
delete(fs, path, recursive) ==
    LET normalizedPath == normalizePath(path) IN
    IF ~validatePath(normalizedPath) THEN Threw(fs)
    ELSE IF ~has(fs, normalizedPath) THEN Threw(fs)
    ELSE IF ~get(fs, normalizedPath).isDirectory
         THEN Returned(remove(fs, normalizedPath), {normalizedPath})
    ELSE LET contents == Children(fs, normalizePath(normalizedPath)) IN
         IF contents # << >> /\ ~recursive THEN Threw(fs)
         ELSE LET sub == IF recursive THEN deleteContents(fs, contents, {normalizedPath})
                         ELSE Returned(fs, {normalizedPath})
              IN  IF sub.raised THEN sub
                  ELSE Returned(remove(sub.fs, normalizedPath), sub.touched)

deleteContents(fs, contents, touched) ==
    IF contents = << >> THEN Returned(fs, touched)
    ELSE LET sub == delete(fs, Head(contents), TRUE) IN
         IF sub.raised THEN sub
         ELSE deleteContents(sub.fs, Tail(contents), touched \cup sub.touched)

\* move: the keys collected in oldPaths
RECURSIVE KeysBelow(_, _)
KeysBelow(fs, dir) ==
    IF fs = << >> THEN << >>
    ELSE IF Head(fs).path # dir /\ startsWith(Head(fs).path, dir \o << "/" >>)
         THEN << Head(fs).path >> \o KeysBelow(Tail(fs), dir)
         ELSE KeysBelow(Tail(fs), dir)

\* move: the loop `for (const path of oldPaths)`
RECURSIVE movePaths(_, _, _, _)
movePaths(fs, oldPaths, from, to) ==
    IF oldPaths = << >> THEN fs
    ELSE LET path == Head(oldPaths)
             newSubPath == to \o SubSeq(path, Len(from) + 1, Len(path))
         IN  movePaths(remove(set(fs, newSubPath, get(fs, path).isDirectory), path),
                       Tail(oldPaths), from, to)

\* FileSystemTool.move
move(fs, oldPath, newPath) ==
    LET normalizedOldPath == normalizePath(oldPath)
        normalizedNewPath == normalizePath(newPath)
    IN  IF ~validatePath(normalizedOldPath) \/ ~validatePath(normalizedNewPath) THEN Threw(fs)
        ELSE IF ~has(fs, normalizedOldPath) THEN Threw(fs)
        ELSE IF has(fs, normalizedNewPath) THEN Threw(fs)
        ELSE IF ~ParentExists(fs, normalizedNewPath) THEN Threw(fs)
        ELSE LET entry == get(fs, normalizedOldPath)
                 moved == remove(set(fs, normalizedNewPath, entry.isDirectory),
                                 normalizedOldPath)
                 oldPaths == IF entry.isDirectory THEN KeysBelow(moved, normalizedOldPath)
                             ELSE << >>
                 after == movePaths(moved, oldPaths, normalizedOldPath, normalizedNewPath)
             IN  Returned(after,
                          {normalizedOldPath, normalizedNewPath,
                           getParentDirectory(normalizedNewPath)}
                          \cup Range(oldPaths)
                          \cup { normalizedNewPath
                                    \o SubSeq(p, Len(normalizedOldPath) + 1, Len(p)) :
                                 p \in Range(oldPaths) })

\* FileSystemTool.copy, and its loop `for (const subEntry of contents)`
RECURSIVE copy(_, _, _, _)
RECURSIVE copyContents(_, _, _, _)
copy(fs, sourcePath, destinationPath, recursive) ==
    LET normalizedSource == normalizePath(sourcePath)
        normalizedDest == normalizePath(destinationPath)
    IN  IF ~validatePath(normalizedSource) \/ ~validatePath(normalizedDest) THEN Threw(fs)
        ELSE IF ~has(fs, normalizedSource) THEN Threw(fs)
        ELSE IF has(fs, normalizedDest) THEN Threw(fs)
        ELSE IF ~ParentExists(fs, normalizedDest) THEN Threw(fs)
        ELSE LET sourceEntry == get(fs, normalizedSource)
                 copied == set(fs, normalizedDest, sourceEntry.isDirectory)
                 touched == {normalizedSource, normalizedDest,
                             getParentDirectory(normalizedDest)}
             IN  IF sourceEntry.isDirectory /\ recursive
                 THEN copyContents(copied, Children(copied, normalizePath(normalizedSource)),
                                   normalizedDest, touched)
                 ELSE Returned(copied, touched)

copyContents(fs, contents, normalizedDest, touched) ==
    IF contents = << >> THEN Returned(fs, touched)
    ELSE LET sub == copy(fs, Head(contents),
                         normalizedDest \o << "/" >> \o baseName(Head(contents)), TRUE)
         IN  IF sub.raised THEN [sub EXCEPT !.touched = touched \cup sub.touched]
             ELSE copyContents(sub.fs, Tail(contents), normalizedDest,
                               touched \cup sub.touched)

\* FileSystemTool.stat
stat(fs, path) ==
    LET normalizedPath == normalizePath(path) IN
    IF ~validatePath(normalizedPath) THEN Threw(fs)
    ELSE IF ~has(fs, normalizedPath) THEN Threw(fs)
    ELSE Returned(fs, {normalizedPath})

\* The paths readFile, readdir, stat and delete are called with: entries that
\* initialize creates, a path inside the root written with '.' and '..', paths that
\* leave the root through '..', and paths in the sibling <root>-x
SamplePaths ==
    { << >>, << "s", "a", "m", "p", "l", "e", ".", "t", "x", "t" >>, << "d", "o", "c", "u", "m", "e", "n", "t", "s" >>, << "d", "o", "c", "u", "m", "e", "n", "t", "s", "/", "r", "e", "a", "d", "m", "e", ".", "m", "d" >>,
      << ".", "/", "d", "o", "c", "u", "m", "e", "n", "t", "s", "/", ".", ".", "/", "s", "a", "m", "p", "l", "e", ".", "t", "x", "t" >>, << "f", "i", "l", "e", "s", "-", "x" >>, << ".", "." >>, << ".", ".", "/", ".", "." >>,
      << ".", ".", "/", "d", "o", "c", "u", "m", "e", "n", "t", "s" >>, << ".", ".", "/", "f", "i", "l", "e", "s", "-", "x" >>, rootDirectory,
      rootDirectory \o << "-", "x", "/", "r", "e", "a", "d", "m", "e", ".", "m", "d" >>, rootDirectory \o << "/", ".", ".", "/", "f", "i", "l", "e", "s", "-", "x" >> }

\* The paths writeFile is called with
FilePaths ==
    { << "s", "a", "m", "p", "l", "e", ".", "t", "x", "t" >>, << "d", "o", "c", "u", "m", "e", "n", "t", "s", "/", "b", ".", "m", "d" >>, << "d", "o", "c", "u", "m", "e", "n", "t", "s", "/", "a", ".", "s", "h" >>, << ".", ".", "/", "b", ".", "m", "d" >>, << ".", ".", "/", "f", "i", "l", "e", "s", "-", "x", "/", "b", ".", "m", "d" >>,
      rootDirectory \o << "-", "x", "/", "b", ".", "m", "d" >> }

\* The paths mkdir is called with
DirectoryPaths ==
    { << "d", "o", "c", "u", "m", "e", "n", "t", "s" >>, << "f", "i", "l", "e", "s", "-", "x" >>, << ".", "." >>, << ".", ".", "/", "f", "i", "l", "e", "s", "-", "x" >>, rootDirectory \o << "-", "x" >> }

\* The source and destination paths move and copy are called with
SourcePaths == { << >>, << "s", "a", "m", "p", "l", "e", ".", "t", "x", "t" >>, << "d", "o", "c", "u", "m", "e", "n", "t", "s" >>, << "f", "i", "l", "e", "s", "-", "x" >>, << ".", ".", "/", "f", "i", "l", "e", "s", "-", "x" >> }

DestinationPaths ==
    { << "f", "i", "l", "e", "s", "-", "x" >>, << ".", ".", "/", "f", "i", "l", "e", "s", "-", "x" >>, << ".", ".", "/", "d", "o", "c", "u", "m", "e", "n", "t", "s" >>, rootDirectory \o << "-", "x", "/", "b", ".", "m", "d" >> }

\* content.length of the buffers writeFile is called with
ContentLengths == { 0, maxFileSize + 1 }

\* The number of entries the map is let grow to
MaxEntries == 5

\* path is the root directory or lies beneath it, component by component
UnderRoot(path) ==
    LET components == NonEmpty(split(path, "/"))
        root == NonEmpty(split(rootDirectory, "/"))
    IN  Len(root) <= Len(components) /\ SubSeq(components, 1, Len(root)) = root

\* Where the normalized form of a path argument lies: under the root, outside it
\* and refused by validatePath, or outside it and let through by validatePath
Outside(path) ==
    LET normalizedPath == normalizePath(path) IN
    IF UnderRoot(normalizedPath) THEN "no"
    ELSE IF validatePath(normalizedPath) THEN "sibling"
    ELSE "above"

\* The worse of two path arguments
Outside2(a, b) ==
    IF "sibling" \in {Outside(a), Outside(b)} THEN "sibling"
    ELSE IF "above" \in {Outside(a), Outside(b)} THEN "above"
    ELSE "no"

\* What is kept of a call that has ended: whether it threw, whether every entry
\* it read, wrote or removed is under the root, and where its paths lie
Ended(outcome, outside) ==
    [raised |-> outcome.raised,
     contained |-> \A path \in outcome.touched : UnderRoot(path),
     outside |-> outside]

\* initialize: the root entry, then the sample files through writeFile and mkdir;
\* the first of them that throws ends it
RECURSIVE initializeSamples(_, _)
initializeSamples(fs, samples) ==
    IF samples = << >> THEN Returned(fs, {})
    ELSE LET outcome == IF Head(samples).isDirectory THEN mkdir(fs, Head(samples).path)
                        ELSE writeFile(fs, Head(samples).path, 0)
         IN  IF outcome.raised THEN outcome
             ELSE initializeSamples(outcome.fs, Tail(samples))

initialize(fs) ==
    initializeSamples(set(fs, rootDirectory, TRUE),
        << [path |-> rootDirectory \o << "/", "s", "a", "m", "p", "l", "e", ".", "t", "x", "t" >>, isDirectory |-> FALSE],
           [path |-> rootDirectory \o << "/", "d", "a", "t", "a", ".", "j", "s", "o", "n" >>, isDirectory |-> FALSE],
           [path |-> rootDirectory \o << "/", "d", "o", "c", "u", "m", "e", "n", "t", "s" >>, isDirectory |-> TRUE],
           [path |-> rootDirectory \o << "/", "d", "o", "c", "u", "m", "e", "n", "t", "s", "/", "r", "e", "a", "d", "m", "e", ".", "m", "d" >>, isDirectory |-> FALSE] >>)

FsInitialize ==
    LET outcome == initialize(virtualFileSystem) IN
    /\ Len(outcome.fs) <= MaxEntries
    /\ virtualFileSystem' = outcome.fs
    /\ fsCall' = Ended(outcome, "no")
    /\ UNCHANGED << taskVars, agentVars, planVars >>

\* cleanup: virtualFileSystem.clear()
FsCleanup ==
    LET outcome == Returned(<< >>, {}) IN
    /\ Len(outcome.fs) <= MaxEntries
    /\ virtualFileSystem' = outcome.fs
    /\ fsCall' = Ended(outcome, "no")
    /\ UNCHANGED << taskVars, agentVars, planVars >>

FsReadFile ==
    \E path \in SamplePaths :
        LET outcome == readFile(virtualFileSystem, path) IN
        /\ Len(outcome.fs) <= MaxEntries
        /\ virtualFileSystem' = outcome.fs
        /\ fsCall' = Ended(outcome, Outside(path))
        /\ UNCHANGED << taskVars, agentVars, planVars >>

FsWriteFile ==
    \E path \in FilePaths, length \in ContentLengths :
        LET outcome == writeFile(virtualFileSystem, path, length) IN
        /\ Len(outcome.fs) <= MaxEntries
        /\ virtualFileSystem' = outcome.fs
        /\ fsCall' = Ended(outcome, Outside(path))
        /\ UNCHANGED << taskVars, agentVars, planVars >>

FsMkdir ==
    \E path \in DirectoryPaths :
        LET outcome == mkdir(virtualFileSystem, path) IN
        /\ Len(outcome.fs) <= MaxEntries
        /\ virtualFileSystem' = outcome.fs
        /\ fsCall' = Ended(outcome, Outside(path))
        /\ UNCHANGED << taskVars, agentVars, planVars >>

FsReaddir ==
    \E path \in SamplePaths :
        LET outcome == readdir(virtualFileSystem, path) IN
        /\ Len(outcome.fs) <= MaxEntries
        /\ virtualFileSystem' = outcome.fs
        /\ fsCall' = Ended(outcome, Outside(path))
        /\ UNCHANGED << taskVars, agentVars, planVars >>

FsDelete ==
    \E path \in SamplePaths, recursive \in BOOLEAN :
        LET outcome == delete(virtualFileSystem, path, recursive) IN
        /\ Len(outcome.fs) <= MaxEntries
        /\ virtualFileSystem' = outcome.fs
        /\ fsCall' = Ended(outcome, Outside(path))
        /\ UNCHANGED << taskVars, agentVars, planVars >>

FsMove ==
    \E oldPath \in SourcePaths, newPath \in DestinationPaths :
        LET outcome == move(virtualFileSystem, oldPath, newPath) IN
        /\ Len(outcome.fs) <= MaxEntries
        /\ virtualFileSystem' = outcome.fs
        /\ fsCall' = Ended(outcome, Outside2(oldPath, newPath))
        /\ UNCHANGED << taskVars, agentVars, planVars >>

\* copy(source, destination, true) of a directory into itself does not end: each
\* copy lists the directory it has just created among the contents to copy
CopyEnds(fs, sourcePath, destinationPath, recursive) ==
    ~ /\ recursive
      /\ has(fs, normalizePath(sourcePath))
      /\ get(fs, normalizePath(sourcePath)).isDirectory
      /\ startsWith(normalizePath(destinationPath), normalizePath(sourcePath) \o << "/" >>)

FsCopy ==
    \E sourcePath \in SourcePaths, destinationPath \in DestinationPaths, recursive \in BOOLEAN :
        /\ CopyEnds(virtualFileSystem, sourcePath, destinationPath, recursive)
        /\ LET outcome == copy(virtualFileSystem, sourcePath, destinationPath, recursive) IN
           /\ Len(outcome.fs) <= MaxEntries
           /\ virtualFileSystem' = outcome.fs
           /\ fsCall' = Ended(outcome, Outside2(sourcePath, destinationPath))
        /\ UNCHANGED << taskVars, agentVars, planVars >>

FsStat ==
    \E path \in SamplePaths :
        LET outcome == stat(virtualFileSystem, path) IN
        /\ Len(outcome.fs) <= MaxEntries
        /\ virtualFileSystem' = outcome.fs
        /\ fsCall' = Ended(outcome, Outside(path))
        /\ UNCHANGED << taskVars, agentVars, planVars >>

NextFs ==
    \/ FsInitialize \/ FsCleanup \/ FsReadFile \/ FsWriteFile \/ FsMkdir
    \/ FsReaddir \/ FsDelete \/ FsMove \/ FsCopy \/ FsStat

\* One FileSystemTool from its construction on, called in any order.
SpecFs == Init /\ [][NextFs]_vars

\* C40: the filesystem tool stays in its sandbox: every entry of the map, and every
\* entry a call that did not throw has read, written or removed, is the root
\* directory or lies beneath it component by component, and a call with a path
\* whose normalized form lies outside the root (through '..', or a sibling such as
\* <root>-x) throws.
C40_SandboxContainment ==
    /\ \A i \in 1..Len(virtualFileSystem) : UnderRoot(virtualFileSystem[i].path)
    /\ ~fsCall.raised => fsCall.contained
    /\ fsCall.outside # "no" => fsCall.raised

\* An operation was called with a path in a sibling of the root whose name
\* begins with the root's name, which validatePath lets through, and threw, in a
\* map filled to its bound where a directory of the sibling's name exists inside
\* the root.
C40_Witness ==
    /\ fsCall.outside = "sibling" /\ fsCall.raised
    /\ Len(virtualFileSystem) = MaxEntries
    /\ has(virtualFileSystem, rootDirectory \o << "/", "f", "i", "l", "e", "s", "-", "x" >>)

====
